---- MODULE Spec2Model ----
(***************************************************************************)
(* x402 payment verification and settlement.                               *)
(*                                                                         *)
(*  - the quote service's POST /quote (the Resource Gate and its Verifier) *)
(*  - SettlementService.settlePayment (the Settlement Executor), run       *)
(*    against the token contract's transferWithAuthorization               *)
(*  - the facilitator's POST /settle in its two variants                   *)
(***************************************************************************)
EXTENDS Integers, Sequences, FiniteSets, Bags, TLC

(***************************************************************************)
(* Bounds of the model.                                                    *)
(***************************************************************************)
\* requests handled concurrently by one service
MaxReq == 2
\* validAfter / validBefore range over 0..MaxTime (unix seconds)
MaxTime == 2
\* while requests are in flight the clock advances at most MaxTicks times
MaxTicks == 2

(***************************************************************************)
(* Program constants.                                                      *)
(***************************************************************************)
PAYMENT_AMOUNT == "1000"
CAIP2_ARBITRUM_ONE == "eip155:42161"
CAIP2_ARBITRUM_SEPOLIA == "eip155:421614"
LEGACY_NETWORK_ARBITRUM == "arbitrum"
LEGACY_NETWORK_ARBITRUM_SEPOLIA == "arbitrum-sepolia"

\* Date.now() is in milliseconds; the handlers floor it to seconds
MsPerSecond == 1000
\* one step of the model's clock: half a second
TickMs == MsPerSecond \div 2

(***************************************************************************)
(* Addresses. An address is a hex string; the code compares addresses      *)
(* after toLowerCase(), so the same account appears in its checksummed     *)
(* and in its lower-case spelling.                                         *)
(***************************************************************************)
PAYER == "0xAa"
MERCHANT == "0xBb"
MALLORY == "0xCc"
USDC == "0xDd"
OTHER_TOKEN == "0xEe"

toLowerCase(s) ==
  CASE s = "0xAa" -> "0xaa"
    [] s = "0xBb" -> "0xbb"
    [] s = "0xCc" -> "0xcc"
    [] s = "0xDd" -> "0xdd"
    [] s = "0xEe" -> "0xee"
    [] s = "EIP155:421614" -> "eip155:421614"
    [] s = "Arbitrum-Sepolia" -> "arbitrum-sepolia"
    [] s = "ARBITRUM" -> "arbitrum"
    [] s = "EIP155:42161" -> "eip155:42161"
    [] s = "EIP155:10" -> "eip155:10"
    [] OTHER -> s

\* viem's checksummed spelling of an address, as recovery returns it
getAddress(s) ==
  CASE s = "0xaa" -> "0xAa"
    [] s = "0xbb" -> "0xBb"
    [] s = "0xcc" -> "0xCc"
    [] OTHER -> s

(***************************************************************************)
(* Network Identity Resolver (x402-utils).                                 *)
(***************************************************************************)
AliasKeys ==
  {CAIP2_ARBITRUM_ONE, CAIP2_ARBITRUM_SEPOLIA,
   LEGACY_NETWORK_ARBITRUM, LEGACY_NETWORK_ARBITRUM_SEPOLIA}

\* The alias tables are object literals: a key they do not define is looked
\* up on Object.prototype, where "constructor" finds the function Object.
PrototypeKeys == {"constructor"}
\* a value that is a function, and a call that threw
FUNCTION_OBJECT == "<function Object>"
TYPE_ERROR == "<TypeError>"
INVALID_NETWORK == "<Error: Invalid NETWORK>"
Threw(v) == v \in {TYPE_ERROR, INVALID_NETWORK}

ALIAS_TO_CAIP(k) ==
  CASE k = CAIP2_ARBITRUM_ONE -> CAIP2_ARBITRUM_ONE
    [] k = CAIP2_ARBITRUM_SEPOLIA -> CAIP2_ARBITRUM_SEPOLIA
    [] k = LEGACY_NETWORK_ARBITRUM -> CAIP2_ARBITRUM_ONE
    [] k = LEGACY_NETWORK_ARBITRUM_SEPOLIA -> CAIP2_ARBITRUM_SEPOLIA
    [] k \in PrototypeKeys -> FUNCTION_OBJECT

\* the keys whose lookup gives a truthy value
Aliased(k) == k \in AliasKeys \cup PrototypeKeys

\* app/x402-utils of x402-service: an unknown id is returned as given
normalizeNetworkId(networkId) ==
  IF networkId = "" THEN ""
  ELSE IF Threw(networkId) THEN networkId
  ELSE IF networkId = FUNCTION_OBJECT THEN TYPE_ERROR
  ELSE IF Aliased(networkId) THEN ALIAS_TO_CAIP(networkId)
  ELSE IF Aliased(toLowerCase(networkId))
       THEN ALIAS_TO_CAIP(toLowerCase(networkId))
  ELSE networkId

\* x402-utils of the other services: the alias is looked up by the lower-case
\* id, and the result is lower-cased
normalizeNetworkIdUtils(networkId) ==
  IF networkId = "" THEN ""
  ELSE IF Threw(networkId) THEN networkId
  ELSE IF networkId = FUNCTION_OBJECT THEN TYPE_ERROR
  ELSE IF Aliased(toLowerCase(networkId))
       THEN IF ALIAS_TO_CAIP(toLowerCase(networkId)) = FUNCTION_OBJECT
            THEN TYPE_ERROR
            ELSE toLowerCase(ALIAS_TO_CAIP(toLowerCase(networkId)))
  ELSE toLowerCase(networkId)

\* the three copies of the resolver: app/x402-utils of x402-service, and the
\* x402-utils of the other services with and without chainIdFromNetworkId
ResolverModules == {"app", "utils", "utilsLegacyOnly"}

normalizeNetworkIdOf(module, networkId) ==
  IF module = "app" THEN normalizeNetworkId(networkId)
  ELSE normalizeNetworkIdUtils(networkId)

\* normalized.startsWith('eip155:'), and Number(normalized.split(':')[1]);
\* NaN stands for a number that is not finite
NaN == -1
StartsWithEip155(s) ==
  s \in {"eip155:42161", "eip155:421614", "eip155:10", "eip155:abc", "eip155:"}
NumberAfterColon(s) ==
  CASE s = "eip155:42161" -> 42161
    [] s = "eip155:421614" -> 421614
    [] s = "eip155:10" -> 10
    [] s = "eip155:" -> 0
    [] OTHER -> NaN

ChainId(n) == [kind |-> "number", n |-> n]
ChainNull == [kind |-> "null", n |-> 0]
ChainThrew == [kind |-> "throw", n |-> 0]

chainIdFromNetworkId(module, networkId) ==
  LET normalized == normalizeNetworkIdOf(module, networkId)
  IN IF Threw(normalized) THEN ChainThrew
     ELSE IF normalized = CAIP2_ARBITRUM_ONE THEN ChainId(42161)
     ELSE IF normalized = CAIP2_ARBITRUM_SEPOLIA THEN ChainId(421614)
     ELSE IF normalized = FUNCTION_OBJECT THEN ChainThrew
     ELSE IF StartsWithEip155(normalized)
          THEN IF NumberAfterColon(normalized) # NaN
               THEN ChainId(NumberAfterColon(normalized))
               ELSE ChainNull
     ELSE ChainNull

toLegacyNetworkId(module, networkId) ==
  LET normalized == normalizeNetworkIdOf(module, networkId)
  IN IF Threw(normalized) THEN normalized
     ELSE IF normalized = CAIP2_ARBITRUM_ONE THEN LEGACY_NETWORK_ARBITRUM
     ELSE IF normalized = CAIP2_ARBITRUM_SEPOLIA THEN LEGACY_NETWORK_ARBITRUM_SEPOLIA
     ELSE networkId

\* app/x402-utils only: the facilitator resolves NETWORK with it at start-up
resolveNetwork(value) ==
  IF value # "" /\ Aliased(value) THEN ALIAS_TO_CAIP(value) ELSE INVALID_NETWORK

(***************************************************************************)
(* BigInt(string). The amounts travel as decimal strings; BigInt accepts   *)
(* decimal and 0x-prefixed digits and throws a SyntaxError on anything     *)
(* else.                                                                   *)
(***************************************************************************)
ValueStrings == {"0", "999", "1000", "1001", "0x3e8", "abc"}

BigIntThrows(s) == s \notin {"0", "999", "1000", "1001", "0x3e8", "2000000000"}

BigInt(s) ==
  CASE s = "0" -> 0
    [] s = "999" -> 999
    [] s = "1000" -> 1000
    [] s = "1001" -> 1001
    [] s = "0x3e8" -> 1000
    [] s = "2000000000" -> 2000000000

(***************************************************************************)
(* Authorization Codec (app/eip3009). A signature is described by what was *)
(* signed and by whom:                                                     *)
(*   good        the key of `from` signed exactly this authorization under *)
(*               the domain (TestUSDC, 1, 421614, USDC)                    *)
(*   otherKey    another key signed this authorization                     *)
(*   otherMsg    the key of `from` signed an authorization with other      *)
(*               fields (a signature lifted from another authorization)    *)
(*   otherToken  the key of `from` signed this authorization under the     *)
(*               domain of another token contract                          *)
(*   malformed   the bytes are no signature                                *)
(* Recovery over a digest that is not the signed one yields an address     *)
(* unrelated to every account.                                             *)
(***************************************************************************)
SigKinds == {"good", "otherKey", "otherMsg", "otherToken", "malformed"}
NULL == "null"
UNRELATED == "0x00"

\* the token contract whose domain the payer signed under
SignedToken(p) == IF p.sig = "otherToken" THEN OTHER_TOKEN ELSE USDC

verifyTransferAuthorization(p, tokenAddress) ==
  CASE p.sig = "malformed" -> NULL
    [] p.sig = "otherKey" -> IF toLowerCase(p.from) = toLowerCase(MALLORY)
                             THEN PAYER ELSE MALLORY
    [] p.sig = "otherMsg" -> UNRELATED
    [] p.sig = "good" /\ SignedToken(p) = tokenAddress -> getAddress(p.from)
    [] OTHER -> UNRELATED

(***************************************************************************)
(* Quote service: the requirement it advertises and the checks POST /quote *)
(* applies to a presented authorization.                                   *)
(***************************************************************************)
buildRequirements ==
  [ scheme |-> "exact",
    network |-> CAIP2_ARBITRUM_SEPOLIA,
    maxAmountRequired |-> PAYMENT_AMOUNT,
    payTo |-> MERCHANT,
    asset |-> USDC ]

E_REQUIRED == "Payment required"
E_SCHEME_NETWORK == "Unsupported payment scheme or network"
E_AMOUNT == "Insufficient payment amount"
E_RECIPIENT == "Payment recipient mismatch"
E_SIGNATURE == "Invalid payment signature"
E_TIME == "Payment authorization expired or not yet valid"
E_SYNTAX == "SyntaxError: Cannot convert to a BigInt"
E_BODY == "ZodError: invalid intent"
E_SETTLEMENT == "Settlement failed"
VERIFIED == "verified"

\* headers of a request: no payment header, one that does not parse, or one
\* carrying a payment payload
HeaderKinds == {"none", "unparsable", "payment"}

\* a parser that finds a payload in every request
parsePaymentPayloadFromHeadersAlways(q) == TRUE

parsePaymentPayloadFromHeaders(q) == q.hdr = "payment"

\* what sendPaymentRequired serialises into the PAYMENT-RESPONSE header
requirementsJson ==
  [ x402Version |-> 2, error |-> E_REQUIRED, accepts |-> <<buildRequirements>> ]

\* a reply: status, body.error (detail: the error text after its prefix) and
\* the two response headers, each absent (<<>>) or holding one value
Reply(status, error, xPaymentResponse) ==
  [ status |-> status, error |-> error, detail |-> "",
    paymentResponse |-> <<>>, xPaymentResponse |-> xPaymentResponse ]

sendPaymentRequired(errorMessage, detail) ==
  [ status |-> 402, error |-> errorMessage, detail |-> detail,
    paymentResponse |-> <<requirementsJson>>,
    xPaymentResponse |-> <<requirementsJson>> ]

\* the X-Payment-Response header of a released quote
paymentResponse(result) ==
  [ status |-> IF result.success THEN "completed" ELSE "verified",
    settled |-> result.success ]

\* the two tests joined the wrong way: one of them passing is enough
SchemeNetworkOkEither(p) ==
  \/ p.scheme = "exact"
  \/ normalizeNetworkId(p.network) = CAIP2_ARBITRUM_SEPOLIA

SchemeNetworkOk(p) ==
  /\ p.scheme = "exact"
  /\ normalizeNetworkId(p.network) = CAIP2_ARBITRUM_SEPOLIA

\* off by one: a payment of exactly the required amount is refused
AmountOkStrict(p, requirement) ==
  BigInt(p.value) > BigInt(requirement.maxAmountRequired)

AmountOk(p, requirement) ==
  ~(BigInt(p.value) < BigInt(requirement.maxAmountRequired))

\* addresses compared letter for letter
RecipientOkExact(p, requirement) == p.to = requirement.payTo

RecipientOk(p, requirement) ==
  toLowerCase(p.to) = toLowerCase(requirement.payTo)

SignatureOk(p) ==
  LET recoveredSigner == verifyTransferAuthorization(p, buildRequirements.asset)
  IN  /\ recoveredSigner # NULL
      /\ toLowerCase(recoveredSigner) = toLowerCase(p.from)

\* the deadline taken as exclusive
TimeOkExclusive(p, now) == ~(now < p.validAfter \/ now >= p.validBefore)

TimeOk(p, now) == ~(now < p.validAfter \/ now > p.validBefore)

\* The checks of POST /quote up to "Payment verified successfully": the
\* error of the first failing check, or VERIFIED. 402 unless BigInt threw.
verifyQuotePayment(q, now) ==
  LET p == q.payload
      requirement == buildRequirements
  IN
  IF ~parsePaymentPayloadFromHeaders(q) THEN E_REQUIRED
  ELSE IF ~SchemeNetworkOk(p) THEN E_SCHEME_NETWORK
  ELSE IF BigIntThrows(p.value) THEN E_SYNTAX
  ELSE IF ~AmountOk(p, requirement) THEN E_AMOUNT
  ELSE IF ~RecipientOk(p, requirement) THEN E_RECIPIENT
  ELSE IF ~SignatureOk(p) THEN E_SIGNATURE
  ELSE IF ~TimeOk(p, now) THEN E_TIME
  ELSE VERIFIED

\* status of the reply that carries a verification error
RejectStatus(err) == IF err = E_SYNTAX THEN 400 ELSE 402

(***************************************************************************)
(* State.                                                                  *)
(***************************************************************************)
VARIABLES
  clockMs,           \* Date.now(), milliseconds
  enableSettlement,  \* ENV.ENABLE_SETTLEMENT of the quote service
  req,               \* quote service: the bag of requests in flight
  used,              \* token contract: consumed (authorizer, nonce) pairs
  transfers,         \* token contract: transfers executed per (authorizer, nonce)
  balance,           \* token contract: the payer's balance
  vreq,              \* verifier run: the request presented
  vresp,             \* verifier run: the error it was answered with
  facVariant,        \* facilitator: which of the two servers is deployed
  merchantApiKey,    \* facilitator: MERCHANT_API_KEY ("" when not configured)
  fac,               \* facilitator: the bag of POST /settle requests in flight
  allowance,         \* token contract: what the payer approved the merchant for
  pulled,            \* token contract: transferFrom's executed, per (owner, nonce)
                     \* of the request that caused them
  mandates,          \* metering service: MandateManager.mandates, by mandateId
  events,            \* metering service: the usage events recorded, in order
  batches,           \* metering service: the batch invoices, by batchId
  inf,               \* metering service: the bag of POST /inference requests
  stl,               \* metering service: the bag of POST /settlement/complete
                     \* requests
  receipts,          \* metering service: ReceiptManager's receipts, in order
  userMandates,      \* metering service: MandateManager.userMandates, the
                     \* mandate ids indexed by user address
  sub,               \* metering service: the last POST /mandate/submit and
                     \* its reply
  net,               \* network resolver run: the module, the id and the results
  rqm,               \* requirements run: the endpoint, the request and the reply
  adp                \* packed-signature run: the request and what the facilitator
                     \* and the settlement adapter made of it

facVars == <<facVariant, merchantApiKey, fac, allowance, pulled>>
meterVars == <<mandates, events, batches, inf, stl, receipts, userMandates, sub>>
pureVars == <<net, rqm, adp>>
vars ==
  <<clockMs, enableSettlement, req, used, transfers, balance, vreq, vresp, facVars,
    meterVars, pureVars>>

\* Math.floor(Date.now() / 1000)
Now == clockMs \div MsPerSecond

\* the instants a verifier run is tried at: every half second up to MaxTime
ClockValues == {k * TickMs : k \in 0..(2 * MaxTime + 1)}

Nonces == {"n1", "n2"}
AuthKeys == {toLowerCase(PAYER)} \X Nonces
AuthKey(p) == <<toLowerCase(p.from), p.nonce>>

NoPayload ==
  [ scheme |-> "", network |-> "", from |-> "", to |-> "", value |-> "",
    validAfter |-> 0, validBefore |-> 0, nonce |-> "", sig |-> "" ]

(***************************************************************************)
(* One pass of the Verifier over any presented request.                    *)
(***************************************************************************)
VerifyPayloads ==
  [ scheme : {"exact", "upto"},
    network : {CAIP2_ARBITRUM_SEPOLIA, "EIP155:421614", "Arbitrum-Sepolia",
               CAIP2_ARBITRUM_ONE, ""},
    from : {PAYER, toLowerCase(PAYER)},
    to : {MERCHANT, toLowerCase(MERCHANT), MALLORY},
    value : ValueStrings,
    validAfter : 0..MaxTime,
    validBefore : 0..MaxTime,
    nonce : {"n1"},
    sig : SigKinds ]

VerifyRequests ==
  [hdr : {"payment"}, payload : VerifyPayloads]
    \cup [hdr : {"none", "unparsable"}, payload : {NoPayload}]

PENDING == "pending"

InitChain ==
  /\ used = {}
  /\ transfers = [k \in AuthKeys |-> 0]
  /\ balance = 0

\* no facilitator runs beside the quote service
FacIdle ==
  /\ facVariant = "server"
  /\ merchantApiKey = ""
  /\ fac = EmptyBag
  /\ allowance = 0
  /\ pulled = [k \in AuthKeys |-> 0]

\* no run of the pure functions is under way
NoRun == [pc |-> "idle"]
PureIdle ==
  /\ net = NoRun
  /\ rqm = NoRun
  /\ adp = NoRun

\* no metering service runs beside the quote service and the facilitator
MeterIdle ==
  /\ mandates = <<>>
  /\ events = <<>>
  /\ batches = <<>>
  /\ inf = EmptyBag
  /\ stl = EmptyBag
  /\ receipts = <<>>
  /\ userMandates = <<>>
  /\ sub = NoRun

InitVerify ==
  /\ FacIdle
  /\ MeterIdle
  /\ PureIdle
  /\ clockMs \in ClockValues
  /\ enableSettlement = FALSE
  /\ req = EmptyBag
  /\ InitChain
  /\ vreq \in VerifyRequests
  /\ vresp = PENDING

\* POST /quote up to the end of verification
VerifyStep ==
  /\ vresp = PENDING
  /\ vresp' = verifyQuotePayment(vreq, Now)
  /\ UNCHANGED <<pureVars, meterVars, clockMs, enableSettlement, req, used, transfers, balance, vreq, facVars>>

NextVerify == VerifyStep

SpecVerify == InitVerify /\ [][NextVerify]_vars

(***************************************************************************)
(* Token contract (TestUSDC, EIP-3009). transferWithAuthorization checks   *)
(* the window against the block time (both bounds exclusive), the nonce    *)
(* against its authorization state, the signature against its own domain   *)
(* and the balance; on success it marks the nonce used and moves the       *)
(* value, in one transaction.                                              *)
(***************************************************************************)
authorizationState(authorizer, nonce) ==
  <<toLowerCase(authorizer), nonce>> \in used

CanTransferWithAuthorization(p, blockTime) ==
  /\ blockTime > p.validAfter
  /\ blockTime < p.validBefore
  /\ ~authorizationState(p.from, p.nonce)
  /\ verifyTransferAuthorization(p, USDC) = getAddress(p.from)
  /\ balance >= BigInt(p.value)

(***************************************************************************)
(* Settlement Executor (app/settlement, SettlementService).                *)
(***************************************************************************)
S_USED == "Authorization already used"
S_GAS_HIGH == "Gas price too high"
S_REVERTED == "Transaction reverted"
S_ESTIMATE == "Failed to estimate gas"
S_RPC == "HTTP request failed"

\* settlementResult before (or without) a settlement: null
NoResult == [success |-> FALSE, error |-> NULL, transactionHash |-> NULL]
\* the hash of a submitted transaction (which one does not matter)
TX_HASH == "0xtx"
Success == [success |-> TRUE, error |-> "", transactionHash |-> TX_HASH]
Failure(e) == [success |-> FALSE, error |-> e, transactionHash |-> NULL]
Reverted == [success |-> FALSE, error |-> S_REVERTED, transactionHash |-> TX_HASH]

\* Fees are counted in units of 0.01 gwei (10^7 wei).
UnitsPerGwei == 100
parseGwei(g) == g * UnitsPerGwei
MAX_GAS_PRICE_GWEI == 100
GAS_PRICE_MULTIPLIER_PCT == 120
\* what the node may answer: the gas the call takes, the base fee per gas
NodeGasLimits == {60000}
NodeBaseFees == {1, 5000}

estimateGas(gasLimit, baseFeePerGas) ==
  LET maxPriorityFeePerGas == 1
      maxFeePerGas == baseFeePerGas * 2 + maxPriorityFeePerGas
      bufferedGasLimit == (gasLimit * GAS_PRICE_MULTIPLIER_PCT) \div 100
  IN  [ gasLimit |-> bufferedGasLimit,
        maxFeePerGas |-> maxFeePerGas,
        maxPriorityFeePerGas |-> maxPriorityFeePerGas,
        estimatedCost |-> bufferedGasLimit * maxFeePerGas ]

\* a settlement that goes ahead at any price
GasPriceTooHighNever(gasEstimate) == FALSE

GasPriceTooHigh(gasEstimate) ==
  gasEstimate.maxFeePerGas > parseGwei(MAX_GAS_PRICE_GWEI)

\* an executor that never consults the authorization state
isAuthorizationUsedNever(rpcOk, authorizer, nonce) == FALSE

\* no estimate taken yet
NoGas == estimateGas(0, 0)

\* isAuthorizationUsed: the contract's answer, or false when the read fails
isAuthorizationUsed(rpcOk, authorizer, nonce) ==
  IF rpcOk THEN authorizationState(authorizer, nonce) ELSE FALSE

\* an executor that reports every mined transaction as a success
ResultOfReceiptAlways(status) == Success

\* the result settlePayment maps a receipt to
ResultOfReceipt(status) ==
  IF status = "success" THEN Success ELSE Reverted

(***************************************************************************)
(* Quote service: POST /quote from verification to the reply, and          *)
(* settlePayment called on its own. The requests in flight form a bag      *)
(* (they carry no identity); a request's pc is the await it is suspended   *)
(* at.                                                                     *)
(***************************************************************************)
Auth(nonce, value, to, sig) ==
  [ scheme |-> "exact", network |-> CAIP2_ARBITRUM_SEPOLIA,
    from |-> PAYER, to |-> to, value |-> value,
    validAfter |-> 0, validBefore |-> MaxTime,
    nonce |-> nonce, sig |-> sig ]

\* what clients send to POST /quote
QuoteRequests ==
  [ hdr : {"payment"},
    payload : {Auth("n1", "1000", MERCHANT, "good"),
               Auth("n1", "1001", toLowerCase(MERCHANT), "good"),
               Auth("n2", "1000", MERCHANT, "good"),
               Auth("n1", "999", MERCHANT, "good")} ]
    \cup [hdr : {"none"}, payload : {NoPayload}]

\* what settlePayment is handed when it is called on its own
DirectPayloads ==
  {Auth("n1", "1001", MALLORY, "good"), Auth("n1", "1000", MERCHANT, "otherMsg")}

StartedRequest(via, q) ==
  [ pc |-> "readAuth", via |-> via, hdr |-> q.hdr, payload |-> q.payload,
    readOk |-> FALSE, late |-> FALSE, gas |-> NoGas, tx |-> "none",
    result |-> NoResult, status |-> 0, error |-> "", detail |-> "",
    paymentResponse |-> <<>>, xPaymentResponse |-> <<>> ]

InFlight == BagToSet(req)
Replace(old, new) == req' = (req (-) SetToBag({old})) (+) SetToBag({new})

\* a reply that forgets to look at the settlement result
ReplyAfterVerificationAlways(result, bodyValid) ==
  IF bodyValid THEN Reply(200, "", <<paymentResponse(result)>>)
  ELSE Reply(400, E_BODY, <<>>)

\* the reply of POST /quote once verification (and settlement, when enabled)
\* is behind it: the settlement error, or the quote, or the body's error
ReplyAfterVerification(result, bodyValid) ==
  IF result # NoResult /\ ~result.success
  THEN sendPaymentRequired(E_SETTLEMENT, result.error)
  ELSE IF bodyValid THEN Reply(200, "", <<paymentResponse(result)>>)
  ELSE Reply(400, E_BODY, <<>>)

\* settlePayment returns `result`; POST /quote goes on to its reply
ReturnedWith(cur, result, bodies) ==
  IF cur.via = "direct"
  THEN {[cur EXCEPT !.pc = "done", !.result = result]}
  ELSE {LET reply == ReplyAfterVerification(result, bodyValid)
        IN  [cur EXCEPT !.pc = "done", !.result = result,
                        !.status = reply.status,
                        !.error = reply.error,
                        !.detail = reply.detail,
                        !.paymentResponse = reply.paymentResponse,
                        !.xPaymentResponse = reply.xPaymentResponse]
        : bodyValid \in bodies}

\* the request body may or may not be a valid intent
Returned(cur, result) == ReturnedWith(cur, result, BOOLEAN)

\* POST /quote for request q: parse the headers, verify, then settle or reply
ReceiveOf(q, bodies) ==
  LET err == verifyQuotePayment(q, Now)
      cur == StartedRequest("quote", q)
      reply == IF RejectStatus(err) = 402
               THEN sendPaymentRequired(err, "")
               ELSE Reply(RejectStatus(err), err, <<>>)
  IN  IF err # VERIFIED
      THEN req' = req (+) SetToBag({[cur EXCEPT
             !.pc = "done", !.status = reply.status, !.error = reply.error,
             !.paymentResponse = reply.paymentResponse,
             !.xPaymentResponse = reply.xPaymentResponse]})
      ELSE IF enableSettlement
      THEN req' = req (+) SetToBag({cur})
      ELSE \E done \in ReturnedWith(cur, NoResult, bodies) :
             req' = req (+) SetToBag({done})

Receive ==
  /\ BagCardinality(req) < MaxReq
  /\ \E q \in QuoteRequests : ReceiveOf(q, BOOLEAN)
  /\ UNCHANGED <<pureVars, meterVars, clockMs, enableSettlement, used, transfers, balance, vreq, vresp, facVars>>

\* settlePayment(tokenAddress, paymentPayload) called on its own
DirectSettle ==
  /\ BagCardinality(req) < MaxReq
  /\ \E p \in DirectPayloads :
       req' = req (+) SetToBag({StartedRequest("direct",
                                               [hdr |-> "payment", payload |-> p])})
  /\ UNCHANGED <<pureVars, meterVars, clockMs, enableSettlement, used, transfers, balance, vreq, vresp, facVars>>

\* settlePayment: await isAuthorizationUsed, answered (rpcOk) or not
ReadAnswered(r, rpcOk, bodies) ==
  LET p == r.payload
      isUsed == isAuthorizationUsed(rpcOk, p.from, p.nonce)
      cur == [r EXCEPT !.readOk = rpcOk,
                       !.late = authorizationState(p.from, p.nonce)]
  IN  IF isUsed
      THEN \E done \in ReturnedWith(cur, Failure(S_USED), bodies) : Replace(r, done)
      ELSE Replace(r, [cur EXCEPT !.pc = "estimate"])

ReadAuthState(r) ==
  /\ r.pc = "readAuth"
  /\ \E rpcOk \in BOOLEAN : ReadAnswered(r, rpcOk, BOOLEAN)
  /\ UNCHANGED <<pureVars, meterVars, clockMs, enableSettlement, used, transfers, balance, vreq, vresp, facVars>>

\* settlePayment: await estimateGas, answered by the node, then the ceiling
\* check. The node simulates the call: it answers only when the call would
\* go through.
EstimateAnswered(r, baseFees, bodies) ==
  /\ CanTransferWithAuthorization(r.payload, Now)
  /\ \E gasLimit \in NodeGasLimits, baseFee \in baseFees :
       LET gasEstimate == estimateGas(gasLimit, baseFee)
           cur == [r EXCEPT !.gas = gasEstimate]
       IN  IF GasPriceTooHigh(gasEstimate)
           THEN \E done \in ReturnedWith(cur, Failure(S_GAS_HIGH), bodies) :
                  Replace(r, done)
           ELSE Replace(r, [cur EXCEPT !.pc = "submit"])

EstimateGas(r) ==
  /\ r.pc = "estimate"
  /\ \/ \E done \in Returned(r, Failure(S_ESTIMATE)) : Replace(r, done)
     \/ EstimateAnswered(r, NodeBaseFees, BOOLEAN)
  /\ UNCHANGED <<pureVars, meterVars, clockMs, enableSettlement, used, transfers, balance, vreq, vresp, facVars>>

\* settlePayment: await walletClient.writeContract, accepted by the node
SubmitAccepted(r) == Replace(r, [r EXCEPT !.pc = "wait", !.tx = "pending"])

Submit(r) ==
  /\ r.pc = "submit"
  /\ \/ \E done \in Returned(r, Failure(S_RPC)) : Replace(r, done)
     \/ SubmitAccepted(r)
  /\ UNCHANGED <<pureVars, meterVars, clockMs, enableSettlement, used, transfers, balance, vreq, vresp, facVars>>

\* the chain includes the transaction of request r in a block
Mine(r) ==
  /\ r.tx = "pending"
  /\ LET p == r.payload IN
     IF CanTransferWithAuthorization(p, Now)
     THEN /\ used' = used \cup {AuthKey(p)}
          /\ transfers' = [transfers EXCEPT ![AuthKey(p)] = @ + 1]
          /\ balance' = balance - BigInt(p.value)
          /\ Replace(r, [r EXCEPT !.tx = "success"])
     ELSE /\ Replace(r, [r EXCEPT !.tx = "reverted"])
          /\ UNCHANGED <<used, transfers, balance>>
  /\ UNCHANGED <<pureVars, meterVars, clockMs, enableSettlement, vreq, vresp, facVars>>

\* settlePayment: await waitForTransactionReceipt, then map the receipt
ReceiptReturned(r, bodies) ==
  /\ r.tx \in {"success", "reverted"}
  /\ \E done \in ReturnedWith(r, ResultOfReceipt(r.tx), bodies) : Replace(r, done)

WaitReceipt(r) ==
  /\ r.pc = "wait"
  /\ \/ \E done \in Returned(r, Failure(S_RPC)) : Replace(r, done)
     \/ ReceiptReturned(r, BOOLEAN)
  /\ UNCHANGED <<pureVars, meterVars, clockMs, enableSettlement, used, transfers, balance, vreq, vresp, facVars>>

\* the run starts inside the window of every authorization of QuoteRequests
StartMs == (MaxTime - 1) * MsPerSecond

Tick ==
  /\ clockMs + TickMs <= StartMs + MaxTicks * TickMs
  /\ clockMs' = clockMs + TickMs
  /\ UNCHANGED <<pureVars, meterVars, enableSettlement, req, used, transfers, balance, vreq, vresp, facVars>>

\* the payer holds enough for every authorization it signed
InitialBalance == BigInt("1000") + BigInt("1001") + BigInt("1000")

Init ==
  /\ MeterIdle
  /\ PureIdle
  /\ FacIdle
  /\ clockMs = StartMs
  /\ enableSettlement \in BOOLEAN
  /\ req = EmptyBag
  /\ used = {}
  /\ transfers = [k \in AuthKeys |-> 0]
  /\ balance = InitialBalance
  /\ vreq = [hdr |-> "none", payload |-> NoPayload]
  /\ vresp = PENDING

Next ==
  \/ Receive
  \/ DirectSettle
  \/ \E r \in InFlight : ReadAuthState(r)
  \/ \E r \in InFlight : EstimateGas(r)
  \/ \E r \in InFlight : Submit(r)
  \/ \E r \in InFlight : Mine(r)
  \/ \E r \in InFlight : WaitReceipt(r)
  \/ Tick

Spec == Init /\ [][Next]_vars

(***************************************************************************)
(* The paying client against a quote service with settlement enabled and   *)
(* a node that answers: X402QuoteClient.getQuote signs an authorization    *)
(* for exactly the required amount with a nonce of its own and a window    *)
(* around now, and sends it with a valid intent as body. The handlers'     *)
(* awaits resolve and the chain includes what is pending (weak fairness).  *)
(***************************************************************************)
ClientPayloads ==
  {Auth("n1", buildRequirements.maxAmountRequired, MERCHANT, "good"),
   Auth("n2", buildRequirements.maxAmountRequired, MERCHANT, "good"),
   Auth("n2", buildRequirements.maxAmountRequired, toLowerCase(MERCHANT), "good")}

\* generateNonce(): no two authorizations of the client share a nonce
FreshNonce(p) == \A r \in InFlight : r.payload.nonce # p.nonce

ClientPays ==
  /\ BagCardinality(req) < MaxReq
  /\ \E p \in ClientPayloads :
       /\ FreshNonce(p)
       /\ ReceiveOf([hdr |-> "payment", payload |-> p], {TRUE})
  /\ UNCHANGED <<pureVars, meterVars, clockMs, enableSettlement, used, transfers, balance, vreq, vresp, facVars>>

ReadAuthStateAnswered(r) ==
  /\ r.pc = "readAuth"
  /\ ReadAnswered(r, TRUE, {TRUE})
  /\ UNCHANGED <<pureVars, meterVars, clockMs, enableSettlement, used, transfers, balance, vreq, vresp, facVars>>

\* the node's base fee is the lowest of NodeBaseFees
EstimateGasAnswered(r) ==
  /\ r.pc = "estimate"
  /\ EstimateAnswered(r, {f \in NodeBaseFees : \A g \in NodeBaseFees : f <= g}, {TRUE})
  /\ UNCHANGED <<pureVars, meterVars, clockMs, enableSettlement, used, transfers, balance, vreq, vresp, facVars>>

SubmitAnswered(r) ==
  /\ r.pc = "submit"
  /\ SubmitAccepted(r)
  /\ UNCHANGED <<pureVars, meterVars, clockMs, enableSettlement, used, transfers, balance, vreq, vresp, facVars>>

WaitReceiptAnswered(r) ==
  /\ r.pc = "wait"
  /\ ReceiptReturned(r, {TRUE})
  /\ UNCHANGED <<pureVars, meterVars, clockMs, enableSettlement, used, transfers, balance, vreq, vresp, facVars>>

\* time passes, short of the authorizations' deadline
TickInside ==
  /\ (clockMs + TickMs) \div MsPerSecond < MaxTime
  /\ Tick

InitHappy == Init /\ enableSettlement

NextHappy ==
  \/ ClientPays
  \/ \E r \in InFlight : ReadAuthStateAnswered(r)
  \/ \E r \in InFlight : EstimateGasAnswered(r)
  \/ \E r \in InFlight : SubmitAnswered(r)
  \/ \E r \in InFlight : Mine(r)
  \/ \E r \in InFlight : WaitReceiptAnswered(r)
  \/ TickInside

SpecHappy ==
  /\ InitHappy
  /\ [][NextHappy]_vars
  /\ WF_vars(\E r \in InFlight : ReadAuthStateAnswered(r))
  /\ WF_vars(\E r \in InFlight : EstimateGasAnswered(r))
  /\ WF_vars(\E r \in InFlight : SubmitAnswered(r))
  /\ WF_vars(\E r \in InFlight : Mine(r))
  /\ WF_vars(\E r \in InFlight : WaitReceiptAnswered(r))

(***************************************************************************)
(* Facilitator: POST /settle. Two servers implement it: "server"           *)
(* (services/facilitator/server.ts) and "legacy" (the earlier facilitator  *)
(* server). Both pull the funds with the token's transferFrom, which the   *)
(* payer approved beforehand.                                              *)
(***************************************************************************)
FACILITATOR_ADDRESS == MERCHANT
MAX_AMOUNT == 1000000000
\* length of "0x" + r + s + v in hex digits
SigLength == 132

F_UNAUTHORIZED == "Missing or invalid X-API-Key"
F_MISSING == "Missing payment payload"
F_FORMAT == "Invalid settlement request format"
F_SIGNATURE_FORMAT == "Invalid signature format"
F_NETWORK_MISMATCH == "Network mismatch between payment requirements and payload"
F_NETWORK == "Invalid network"
F_TOKEN == "Invalid token address"
F_RECIPIENT == "Invalid recipient address"
F_AMOUNT_MISMATCH == "Amount mismatch between payment requirements and payload"
F_AMOUNT_POSITIVE == "Amount must be a positive integer"
F_AMOUNT_LIMIT == "Amount exceeds maximum limit"
F_THROWN == "Invalid request"
ACCEPTED == "accepted"

\* the X-API-Key header: absent, the merchant's key, or another key
ApiKeys == {NULL, "k1", "wrong"}

FacOk(apiKey, nonce) ==
  [ apiKey |-> apiKey, body |-> "bundle", sigLen |-> SigLength,
    reqNetwork |-> LEGACY_NETWORK_ARBITRUM_SEPOLIA,
    payNetwork |-> CAIP2_ARBITRUM_SEPOLIA,
    token |-> toLowerCase(USDC), to |-> MERCHANT,
    amount |-> "1000", value |-> "1000",
    from |-> PAYER, nonce |-> nonce,
    recipient |-> MERCHANT, deadline |-> MaxTime, sig |-> "good" ]

\* what clients send to POST /settle
FacRequests ==
  UNION {
    { FacOk(k, "n1"), FacOk(k, "n2"),
      [FacOk(k, "n1") EXCEPT !.body = "none"],
      [FacOk(k, "n1") EXCEPT !.body = "malformed"],
      [FacOk(k, "n1") EXCEPT !.sigLen = SigLength - 2],
      [FacOk(k, "n1") EXCEPT !.reqNetwork = LEGACY_NETWORK_ARBITRUM,
                             !.payNetwork = CAIP2_ARBITRUM_ONE],
      [FacOk(k, "n1") EXCEPT !.payNetwork = CAIP2_ARBITRUM_ONE],
      [FacOk(k, "n1") EXCEPT !.token = OTHER_TOKEN],
      [FacOk(k, "n1") EXCEPT !.to = MALLORY],
      [FacOk(k, "n1") EXCEPT !.value = "1001"],
      [FacOk(k, "n1") EXCEPT !.amount = "0", !.value = "0"],
      [FacOk(k, "n1") EXCEPT !.amount = "2000000000", !.value = "2000000000"],
      [FacOk(k, "n1") EXCEPT !.amount = "abc", !.value = "abc"],
      [FacOk(k, "n1") EXCEPT !.deadline = 0],
      [FacOk(k, "n1") EXCEPT !.sig = "otherKey"] }
    : k \in ApiKeys }

\* the X-API-Key test at the head of server.ts's handler
ApiKeyOk(apiKey) == ~(merchantApiKey = "" \/ apiKey # merchantApiKey)

\* a conversion that splits a signature of any length
sdkRequestToInternalAnyLength(q) == [q EXCEPT !.payNetwork = q.reqNetwork]

\* sdkRequestToInternal: null (a bundle whose body is NULL) for a signature
\* of the wrong length; otherwise both networks are the request's one network
sdkRequestToInternal(q) ==
  IF q.sigLen # SigLength THEN [q EXCEPT !.body = NULL]
  ELSE [q EXCEPT !.payNetwork = q.reqNetwork]

\* validations that let any recipient through
ValidateTransferAnyRecipient(b) ==
  IF toLowerCase(b.token) # toLowerCase(USDC) THEN F_TOKEN
  ELSE IF b.amount # b.value THEN F_AMOUNT_MISMATCH
  ELSE IF BigIntThrows(b.amount) THEN F_THROWN
  ELSE IF BigInt(b.amount) <= 0 THEN F_AMOUNT_POSITIVE
  ELSE IF BigInt(b.amount) > MAX_AMOUNT THEN F_AMOUNT_LIMIT
  ELSE ACCEPTED

\* the validations the two handlers share, from the token on
ValidateTransfer(b) ==
  IF toLowerCase(b.token) # toLowerCase(USDC) THEN F_TOKEN
  ELSE IF toLowerCase(b.to) # toLowerCase(FACILITATOR_ADDRESS) THEN F_RECIPIENT
  ELSE IF b.amount # b.value THEN F_AMOUNT_MISMATCH
  ELSE IF BigIntThrows(b.amount) THEN F_THROWN
  ELSE IF BigInt(b.amount) <= 0 THEN F_AMOUNT_POSITIVE
  ELSE IF BigInt(b.amount) > MAX_AMOUNT THEN F_AMOUNT_LIMIT
  ELSE ACCEPTED

\* services/facilitator/server.ts, POST /settle up to writeContract
settleServer(q) ==
  IF ~ApiKeyOk(q.apiKey) THEN F_UNAUTHORIZED
  ELSE IF q.body = "none" THEN F_MISSING
  ELSE IF q.body = "malformed" THEN F_FORMAT
  ELSE IF sdkRequestToInternal(q).body = NULL THEN F_SIGNATURE_FORMAT
  ELSE LET b == sdkRequestToInternal(q) IN
       IF normalizeNetworkId(b.payNetwork) # normalizeNetworkId(b.reqNetwork)
       THEN F_NETWORK_MISMATCH
       ELSE IF normalizeNetworkId(b.reqNetwork) # CAIP2_ARBITRUM_SEPOLIA
       THEN F_NETWORK
       ELSE ValidateTransfer(b)

\* the legacy facilitator, POST /settle up to writeContract; a bundle
\* without its fields throws at the first field read
settleLegacy(q) ==
  IF q.body = "none" THEN F_MISSING
  ELSE IF q.body = "malformed" THEN F_THROWN
  ELSE IF normalizeNetworkId(q.reqNetwork) # CAIP2_ARBITRUM_SEPOLIA THEN F_NETWORK
  ELSE IF normalizeNetworkId(q.payNetwork) # normalizeNetworkId(q.reqNetwork)
       THEN F_NETWORK_MISMATCH
  ELSE ValidateTransfer(q)

settleRequest(q) ==
  IF facVariant = "server" THEN settleServer(q) ELSE settleLegacy(q)

FacStatus(err) == IF err = F_UNAUTHORIZED THEN 401 ELSE 400

\* ERC-20 transferFrom(from, merchant, amount) goes through
CanTransferFrom(amount) == allowance >= amount /\ balance >= amount

\* the arguments of client.writeContract: the token contract called and
\* transferFrom's from, to and value
NoCall == [address |-> "", from |-> "", to |-> "", value |-> 0]
transferFrom(q) ==
  [address |-> USDC, from |-> q.from, to |-> FACILITATOR_ADDRESS,
   value |-> BigInt(q.amount)]

FacInFlight == BagToSet(fac)
FacReplace(old, new) == fac' = (fac (-) SetToBag({old})) (+) SetToBag({new})
FacRejected(r, status, err) ==
  [r EXCEPT !.pc = "done", !.status = status, !.error = err]

\* POST /settle from the request to the first await
FacReceive ==
  /\ BagCardinality(fac) < MaxReq
  /\ \E q \in FacRequests :
       LET err == settleRequest(q)
           cur == [ q |-> q, pc |-> "submit", tx |-> "none", call |-> NoCall,
                    status |-> 0, success |-> FALSE, error |-> "" ]
       IN  IF err # ACCEPTED
           THEN fac' = fac (+) SetToBag({FacRejected(cur, FacStatus(err), err)})
           ELSE fac' = fac (+) SetToBag({cur})
  /\ UNCHANGED <<pureVars, meterVars, clockMs, enableSettlement, req, used, transfers, balance,
                 vreq, vresp, facVariant, merchantApiKey, allowance, pulled>>

\* await client.writeContract(transferFrom): the node simulates the call
\* and the client throws when it would revert or the node is unreachable
FacSubmit(r) ==
  /\ r.pc = "submit"
  /\ \/ FacReplace(r, FacRejected(r, 400, F_THROWN))
     \/ /\ CanTransferFrom(BigInt(r.q.amount))
        /\ FacReplace(r, [r EXCEPT !.pc = "wait", !.tx = "pending",
                                   !.call = transferFrom(r.q)])
  /\ UNCHANGED <<pureVars, meterVars, clockMs, enableSettlement, req, used, transfers, balance,
                 vreq, vresp, facVariant, merchantApiKey, allowance, pulled>>

\* the chain includes the transferFrom of request r in a block
FacMine(r) ==
  /\ r.tx = "pending"
  /\ LET amount == BigInt(r.q.amount)
         k == AuthKey(r.q)
     IN  IF CanTransferFrom(amount)
         THEN /\ allowance' = allowance - amount
              /\ balance' = balance - amount
              /\ pulled' = [pulled EXCEPT ![k] = @ + 1]
              /\ FacReplace(r, [r EXCEPT !.tx = "success"])
         ELSE /\ FacReplace(r, [r EXCEPT !.tx = "reverted"])
              /\ UNCHANGED <<allowance, balance, pulled>>
  /\ UNCHANGED <<pureVars, meterVars, clockMs, enableSettlement, req, used, transfers,
                 vreq, vresp, facVariant, merchantApiKey>>

\* await client.waitForTransactionReceipt, then the reply
FacWaitReceipt(r) ==
  /\ r.pc = "wait"
  /\ \/ FacReplace(r, FacRejected(r, 400, F_THROWN))
     \/ /\ r.tx \in {"success", "reverted"}
        /\ FacReplace(r, [r EXCEPT !.pc = "done", !.status = 200,
                                   !.success = TRUE])
  /\ UNCHANGED <<pureVars, meterVars, clockMs, enableSettlement, req, used, transfers, balance,
                 vreq, vresp, facVariant, merchantApiKey, allowance, pulled>>

InitFac ==
  /\ MeterIdle
  /\ PureIdle
  /\ clockMs = StartMs
  /\ enableSettlement = FALSE
  /\ req = EmptyBag
  /\ used = {}
  /\ transfers = [k \in AuthKeys |-> 0]
  /\ balance = InitialBalance
  /\ vreq = [hdr |-> "none", payload |-> NoPayload]
  /\ vresp = PENDING
  /\ facVariant \in {"server", "legacy"}
  /\ merchantApiKey \in {"", "k1"}
  /\ fac = EmptyBag
  /\ allowance \in {BigInt("1000"), BigInt("1000") + BigInt("1000")}
  /\ pulled = [k \in AuthKeys |-> 0]

NextFac ==
  \/ FacReceive
  \/ \E r \in FacInFlight : FacSubmit(r)
  \/ \E r \in FacInFlight : FacMine(r)
  \/ \E r \in FacInFlight : FacWaitReceipt(r)

SpecFac == InitFac /\ [][NextFac]_vars

(***************************************************************************)
(* Facilitator: POST /verify, one pass over any request.                   *)
(***************************************************************************)
V_RECIPIENT == "Recipient must be the facilitator address"
V_FORMAT == "Invalid payment verification request format"
VALID == "valid"

\* what clients send to POST /verify
FacVerifyRequests ==
  { [FacOk(NULL, "n1") EXCEPT !.body = b, !.sigLen = l, !.sig = sg,
                               !.deadline = d, !.recipient = rc,
                               !.reqNetwork = n, !.payNetwork = pn]
    : b \in {"bundle", "none", "malformed"},
      l \in {SigLength, SigLength - 2},
      sg \in SigKinds,
      d \in 0..MaxTime,
      rc \in {MERCHANT, toLowerCase(MERCHANT), MALLORY},
      n \in {LEGACY_NETWORK_ARBITRUM_SEPOLIA, CAIP2_ARBITRUM_SEPOLIA,
              LEGACY_NETWORK_ARBITRUM},
      pn \in {CAIP2_ARBITRUM_SEPOLIA, CAIP2_ARBITRUM_ONE} }

\* services/facilitator/server.ts, POST /verify
verifyServer(q) ==
  IF q.body = "none" THEN F_MISSING
  ELSE IF q.body = "malformed" THEN V_FORMAT
  ELSE IF toLowerCase(q.recipient) # toLowerCase(FACILITATOR_ADDRESS)
       THEN V_RECIPIENT
  ELSE IF sdkRequestToInternal(q).body = NULL THEN F_SIGNATURE_FORMAT
  ELSE LET b == sdkRequestToInternal(q) IN
       IF normalizeNetworkId(b.reqNetwork) # CAIP2_ARBITRUM_SEPOLIA
       THEN F_THROWN
       ELSE IF normalizeNetworkId(b.payNetwork) # normalizeNetworkId(b.reqNetwork)
       THEN F_THROWN
       ELSE VALID

\* the legacy facilitator, POST /verify
verifyLegacy(q) ==
  IF q.body = "none" THEN F_MISSING
  ELSE IF q.body = "malformed" THEN F_THROWN
  ELSE IF normalizeNetworkId(q.reqNetwork) # CAIP2_ARBITRUM_SEPOLIA THEN F_THROWN
  ELSE IF normalizeNetworkId(q.payNetwork) # normalizeNetworkId(q.reqNetwork)
       THEN F_THROWN
  ELSE VALID

verifyRequest(q) ==
  IF facVariant = "server" THEN verifyServer(q) ELSE verifyLegacy(q)

InitFacVerify ==
  /\ MeterIdle
  /\ PureIdle
  /\ clockMs \in ClockValues
  /\ enableSettlement = FALSE
  /\ req = EmptyBag
  /\ InitChain
  /\ vreq \in FacVerifyRequests
  /\ vresp = PENDING
  /\ facVariant \in {"server", "legacy"}
  /\ merchantApiKey = "k1"
  /\ fac = EmptyBag
  /\ allowance = BigInt("1000")
  /\ pulled = [k \in AuthKeys |-> 0]

\* POST /verify: the reply; nothing else changes
FacVerifyStep ==
  /\ vresp = PENDING
  /\ vresp' = verifyRequest(vreq)
  /\ UNCHANGED <<pureVars, meterVars, clockMs, enableSettlement, req, used, transfers, balance, vreq,
                 facVars>>

NextFacVerify == FacVerifyStep

SpecFacVerify == InitFacVerify /\ [][NextFacVerify]_vars

(***************************************************************************)
(* The metering service (ap2-service/src/server.ts).  One user holds one   *)
(* signed mandate.  usage-meter.ts keeps the usage events and the batch    *)
(* invoices: getDailyUsage sums the prices of the user's events of the     *)
(* day, createBatchInvoice gathers the unbatched events of a mandate into  *)
(* a batch created "pending", and updateBatchStatus stores the status it   *)
(* is given.  The handlers run one at a time between their awaits.         *)
(***************************************************************************)
MaxInference == 2
MaxSettle == 3

PRICE_PER_MESSAGE_MICRO_USDC == 100
MandateTtl == 86400
DailyCaps == {PRICE_PER_MESSAGE_MICRO_USDC, 250}
BatchThresholds == {1, 2}

MANDATE_ID == "mandate_1"
MandateIds == {MANDATE_ID, "mandate_0"}
STRANGER == "0xcc"
StartSeconds == StartMs \div MsPerSecond

\* MandateManager.createUnsignedMandate, stored by submitSignedMandate
createUnsignedMandate(userAddress, dailyCapMicroUsdc, batchThreshold, now) ==
  [mandateId                |-> MANDATE_ID,
   expiresAt                |-> now + MandateTtl,
   userAddress              |-> toLowerCase(userAddress),
   merchantAddress          |-> toLowerCase(MERCHANT),
   dailyCapMicroUsdc        |-> dailyCapMicroUsdc,
   pricePerMessageMicroUsdc |-> PRICE_PER_MESSAGE_MICRO_USDC,
   batchThreshold           |-> batchThreshold]

\* Map.get: the value in a sequence of one, or the empty sequence
getMandate(mandateId) ==
  IF mandateId \in DOMAIN mandates THEN <<mandates[mandateId]>> ELSE <<>>

\* a validity test that ignores the expiry
isMandateValidAlways(mandateId) == mandateId \in DOMAIN mandates

isMandateValid(mandateId) ==
  /\ mandateId \in DOMAIN mandates
  /\ Now < mandates[mandateId].expiresAt

verifyMandateOwnership(mandateId, userAddress) ==
  /\ mandateId \in DOMAIN mandates
  /\ toLowerCase(mandates[mandateId].userAddress) = toLowerCase(userAddress)

RECURSIVE SumPrices(_)
SumPrices(evs) ==
  IF evs = <<>> THEN 0 ELSE Head(evs).priceMicroUsdc + SumPrices(Tail(evs))

EventsOfUser(evs, userAddress) ==
  SelectSeq(evs, LAMBDA e : e.userAddress = toLowerCase(userAddress))

getDailyUsageOf(evs, userAddress) == SumPrices(EventsOfUser(evs, userAddress))
getDailyUsage(userAddress) == getDailyUsageOf(events, userAddress)

hasExceededDailyCap(userAddress, dailyCapMicroUsdc) ==
  getDailyUsage(userAddress) >= dailyCapMicroUsdc

recordUsage(evs, mandateId, userAddress, priceMicroUsdc) ==
  Append(evs, [mandateId      |-> mandateId,
               userAddress    |-> toLowerCase(userAddress),
               priceMicroUsdc |-> priceMicroUsdc,
               batchId        |-> 0])

\* the events of a mandate not yet assigned to a batch
Unbatched(evs, mandateId) ==
  SelectSeq(evs, LAMBDA e : e.mandateId = mandateId /\ e.batchId = 0)

shouldTriggerBatch(evs, mandateId, batchThreshold) ==
  Len(Unbatched(evs, mandateId)) >= batchThreshold

createBatchInvoice(evs, batchId, mandateId) ==
  [batchId         |-> batchId,
   mandateId       |-> mandateId,
   eventCount      |-> Len(Unbatched(evs, mandateId)),
   totalMicroUsdc  |-> SumPrices(Unbatched(evs, mandateId)),
   status          |-> "pending",
   transactionHash |-> NULL,
   errorMessage    |-> NULL]

\* the events after createBatchInvoice assigned them to the batch
AssignBatch(evs, batchId, mandateId) ==
  [i \in DOMAIN evs |->
     IF evs[i].mandateId = mandateId /\ evs[i].batchId = 0
     THEN [evs[i] EXCEPT !.batchId = batchId]
     ELSE evs[i]]

getBatch(batchId) ==
  IF batchId \in DOMAIN batches THEN <<batches[batchId]>> ELSE <<>>

updateBatchStatus(batchId, status, transactionHash, errorMessage) ==
  [batches EXCEPT ![batchId] = [@ EXCEPT !.status = status,
                                         !.transactionHash = transactionHash,
                                         !.errorMessage = errorMessage]]

I_NOT_FOUND == "Mandate not found"
I_EXPIRED == "Mandate has expired"
I_NOT_OWNER == "Mandate does not belong to this user"
I_CAP_EXCEEDED == "Daily spending cap exceeded"
I_WOULD_EXCEED == "This message would exceed daily spending cap"
I_FAILED == "Inference failed"

InferenceRequests == [mandateId : MandateIds, userAddress : {PAYER, STRANGER}]

\* what JSON.stringify makes of a response field that holds a promise
PROMISE == "{}"

InferenceReply(q, status, error) ==
  [q |-> q, pc |-> "done", status |-> status, error |-> error, batchId |-> 0,
   settlementAuthorization |-> NULL]

\* POST /inference from the request to the call of the model
InferenceStarted(q) ==
  IF getMandate(q.mandateId) = <<>> THEN InferenceReply(q, 404, I_NOT_FOUND)
  ELSE IF ~isMandateValid(q.mandateId) THEN InferenceReply(q, 400, I_EXPIRED)
  ELSE IF ~verifyMandateOwnership(q.mandateId, q.userAddress)
       THEN InferenceReply(q, 403, I_NOT_OWNER)
  ELSE LET mandate == getMandate(q.mandateId)[1]
           dailyUsage == getDailyUsage(q.userAddress)
       IN IF hasExceededDailyCap(q.userAddress, mandate.dailyCapMicroUsdc)
          THEN InferenceReply(q, 429, I_CAP_EXCEEDED)
          ELSE IF dailyUsage + mandate.pricePerMessageMicroUsdc
                    > mandate.dailyCapMicroUsdc
               THEN InferenceReply(q, 429, I_WOULD_EXCEED)
               ELSE [q |-> q, pc |-> "generating", status |-> 0,
                     error |-> NULL, batchId |-> 0,
                     settlementAuthorization |-> NULL]

Generating == {r \in BagToSet(inf) : r.pc = "generating"}
InfReplace(old, new) == inf' = (inf (-) SetToBag({old})) (+) SetToBag({new})

InferenceReceive ==
  /\ BagCardinality(inf) < MaxInference
  /\ \E q \in InferenceRequests : inf' = inf (+) SetToBag({InferenceStarted(q)})
  /\ UNCHANGED <<mandates, events, batches, stl, receipts, userMandates, sub>>
  /\ UNCHANGED <<pureVars, clockMs, enableSettlement, req, used, transfers, balance, vreq,
                 vresp, facVars>>

\* POST /inference after ollamaClient.generate returned or threw; the
\* handler stores what generateSettlementAuthorization returns, a promise,
\* in the response without awaiting it
InferenceGenerated(r) ==
  /\ r.pc = "generating"
  /\ \E generated \in BOOLEAN :
       IF ~generated
       THEN /\ InfReplace(r, [r EXCEPT !.pc = "done", !.status = 500,
                                        !.error = I_FAILED])
            /\ UNCHANGED <<events, batches>>
       ELSE LET mandate == getMandate(r.q.mandateId)[1]
                recorded == recordUsage(events, r.q.mandateId, r.q.userAddress,
                                        mandate.pricePerMessageMicroUsdc)
                batchId == Len(batches) + 1
            IN IF shouldTriggerBatch(recorded, r.q.mandateId,
                                     mandate.batchThreshold)
               THEN /\ batches' = Append(batches,
                         createBatchInvoice(recorded, batchId, r.q.mandateId))
                    /\ events' = AssignBatch(recorded, batchId, r.q.mandateId)
                    /\ InfReplace(r, [r EXCEPT !.pc = "done", !.status = 200,
                                               !.batchId = batchId,
                                               !.settlementAuthorization = PROMISE])
               ELSE /\ events' = recorded
                    /\ UNCHANGED batches
                    /\ InfReplace(r, [r EXCEPT !.pc = "done", !.status = 200])
  /\ UNCHANGED <<mandates, stl, receipts, userMandates, sub>>
  /\ UNCHANGED <<pureVars, clockMs, enableSettlement, req, used, transfers, balance, vreq,
                 vresp, facVars>>

T_MISSING == "Missing required fields: batchId, signature, userAddress, authorization"
T_NO_BATCH == "Batch not found"
T_SETTLEMENT == "Unknown settlement error"

BatchAlready(status) ==
  CASE status = "settling" -> "Batch is already settling"
    [] status = "settled"  -> "Batch is already settled"
    [] status = "failed"   -> "Batch is already failed"
    [] OTHER               -> "Batch is already pending"

\* a handler that starts a settlement for a batch in any status
BatchSettleableAlways(batch) == TRUE

\* the negation of batch.status !== 'pending'
BatchSettleable(batch) == batch.status = "pending"

SettlementReply(batchId, status, error) ==
  [batchId |-> batchId, pc |-> "done", status |-> status, error |-> error]

\* the value an authorization must reach to pay for any batch: the price of
\* as many messages as the largest batch threshold
FullValue ==
  PRICE_PER_MESSAGE_MICRO_USDC
    * (CHOOSE t \in BatchThresholds : \A u \in BatchThresholds : u <= t)
NoAuthorization == [from |-> "", value |-> 0]

\* what clients send to POST /settlement/complete for a batch: a request
\* with a field missing, the owner's request with an authorization of the
\* owner's, and another caller's request with an authorization of its own
SettlementBodies ==
  { [userAddress |-> "", authorization |-> NoAuthorization],
    [userAddress |-> PAYER, authorization |-> [from |-> PAYER, value |-> FullValue]],
    [userAddress |-> STRANGER, authorization |-> [from |-> STRANGER, value |-> 1]] }

BodyComplete(body) ==
  body.userAddress # "" /\ body.authorization # NoAuthorization

\* a receipt manager that stores nothing
createReceiptNever(rcpts, batch, transactionHash) == rcpts

\* ReceiptManager.createReceipt
createReceipt(rcpts, batch, transactionHash) ==
  Append(rcpts, [receiptId       |-> Len(rcpts) + 1,
                 batchId         |-> batch.batchId,
                 mandateId       |-> batch.mandateId,
                 amountMicroUsdc |-> batch.totalMicroUsdc,
                 transactionHash |-> transactionHash])

\* POST /settlement/complete from the request to the call of the adapter
SettlementStarted(batchId, complete) ==
  IF ~complete THEN SettlementReply(batchId, 400, T_MISSING)
  ELSE IF getBatch(batchId) = <<>> THEN SettlementReply(batchId, 404, T_NO_BATCH)
  ELSE IF ~BatchSettleable(getBatch(batchId)[1])
       THEN SettlementReply(batchId, 400, BatchAlready(getBatch(batchId)[1].status))
  ELSE IF getMandate(getBatch(batchId)[1].mandateId) = <<>>
       THEN SettlementReply(batchId, 404, I_NOT_FOUND)
  ELSE [batchId |-> batchId, pc |-> "settling", status |-> 0, error |-> NULL]

Settling == {s \in BagToSet(stl) : s.pc = "settling"}
StlReplace(old, new) == stl' = (stl (-) SetToBag({old})) (+) SetToBag({new})

SettlementReceive ==
  /\ BagCardinality(stl) < MaxSettle
  /\ \E batchId \in 1..(Len(batches) + 1), body \in SettlementBodies :
       \* a request that goes on to the adapter keeps its userAddress and
       \* authorization; one answered at once has no more use for them
       LET started == SettlementStarted(batchId, BodyComplete(body))
           s == [batchId |-> started.batchId, pc |-> started.pc,
                 status |-> started.status, error |-> started.error,
                 userAddress |->
                   IF started.pc = "settling" THEN body.userAddress ELSE "",
                 authorization |->
                   IF started.pc = "settling" THEN body.authorization
                   ELSE NoAuthorization]
       IN /\ stl' = stl (+) SetToBag({s})
          /\ batches' = IF s.pc = "settling"
                        THEN updateBatchStatus(batchId, "settling", NULL, NULL)
                        ELSE batches
  /\ UNCHANGED <<mandates, events, inf, receipts, userMandates, sub>>
  /\ UNCHANGED <<pureVars, clockMs, enableSettlement, req, used, transfers, balance, vreq,
                 vresp, facVars>>

\* what SettlementAdapter.settlePaymentWithAuth resolves to; it never throws
SettlementResults == {Success, Failure(T_SETTLEMENT)}

\* POST /settlement/complete after settlePaymentWithAuth resolved
SettlementReturn(s) ==
  /\ s.pc = "settling"
  /\ \E settlementResult \in SettlementResults :
       IF settlementResult.success /\ settlementResult.transactionHash # NULL
       THEN /\ batches' = updateBatchStatus(s.batchId, "settled",
                                            settlementResult.transactionHash, NULL)
            /\ receipts' = createReceipt(receipts, getBatch(s.batchId)[1],
                                         settlementResult.transactionHash)
            /\ StlReplace(s, [s EXCEPT !.pc = "done", !.status = 200])
       ELSE /\ batches' = updateBatchStatus(s.batchId, "failed", NULL,
                                            settlementResult.error)
            /\ UNCHANGED receipts
            /\ StlReplace(s, [s EXCEPT !.pc = "done", !.status = 500,
                                       !.error = settlementResult.error])
  /\ UNCHANGED <<mandates, events, inf, userMandates, sub>>
  /\ UNCHANGED <<pureVars, clockMs, enableSettlement, req, used, transfers, balance, vreq,
                 vresp, facVars>>

InitMeter ==
  /\ FacIdle
  /\ clockMs = StartMs
  /\ enableSettlement = FALSE
  /\ req = EmptyBag
  /\ InitChain
  /\ vreq = [hdr |-> "none", payload |-> NoPayload]
  /\ vresp = PENDING
  /\ \E cap \in DailyCaps, threshold \in BatchThresholds,
        createdAt \in {StartSeconds - MandateTtl, StartSeconds} :
       mandates = [id \in {MANDATE_ID} |->
                     createUnsignedMandate(PAYER, cap, threshold, createdAt)]
  /\ events = <<>>
  /\ batches = <<>>
  /\ inf = EmptyBag
  /\ stl = EmptyBag
  /\ receipts = <<>>
  /\ userMandates = [u \in {toLowerCase(PAYER)} |-> <<MANDATE_ID>>]
  /\ sub = NoRun
  /\ PureIdle

NextMeter ==
  \/ InferenceReceive
  \/ \E r \in Generating : InferenceGenerated(r)
  \/ SettlementReceive
  \/ \E s \in Settling : SettlementReturn(s)

SpecMeter == InitMeter /\ [][NextMeter]_vars

(***************************************************************************)
(* A run of the Network Identity Resolver: one copy of the module is given *)
(* one network id, and its operations are called on it in any order.       *)
(***************************************************************************)
NetworkIds ==
  {"", "arbitrum", "ARBITRUM", "eip155:42161", "EIP155:42161",
   "arbitrum-sepolia", "Arbitrum-Sepolia", "eip155:421614", "EIP155:421614",
   "eip155:10", "EIP155:10", "eip155:abc", "eip155:", "solana", "constructor"}

NOT_CALLED == "<not called>"
ChainNotCalled == [kind |-> "none", n |-> 0]

\* everything but the resolver is at rest
ServicesIdle ==
  /\ clockMs = StartMs
  /\ enableSettlement = FALSE
  /\ req = EmptyBag
  /\ InitChain
  /\ vreq = [hdr |-> "none", payload |-> NoPayload]
  /\ vresp = PENDING
  /\ FacIdle
  /\ MeterIdle

InitResolver ==
  /\ ServicesIdle
  /\ rqm = NoRun
  /\ adp = NoRun
  /\ \E module \in ResolverModules, id \in NetworkIds :
       net = [pc |-> "run", module |-> module, id |-> id,
              normalized |-> NOT_CALLED, twice |-> NOT_CALLED,
              chainId |-> ChainNotCalled, legacy |-> NOT_CALLED,
              resolved |-> NOT_CALLED]

ResolverUnchanged ==
  UNCHANGED <<clockMs, enableSettlement, req, used, transfers, balance, vreq,
              vresp, facVars, meterVars, rqm, adp>>

Normalize ==
  /\ net.normalized = NOT_CALLED
  /\ net' = [net EXCEPT !.normalized = normalizeNetworkIdOf(net.module, net.id)]
  /\ ResolverUnchanged

\* normalize applied to the value normalize returned
NormalizeAgain ==
  /\ net.normalized # NOT_CALLED
  /\ net.twice = NOT_CALLED
  /\ net' = [net EXCEPT
               !.twice = normalizeNetworkIdOf(net.module, net.normalized)]
  /\ ResolverUnchanged

ChainIdFromNetworkId ==
  /\ net.module \in {"app", "utils"}
  /\ net.chainId = ChainNotCalled
  /\ net' = [net EXCEPT !.chainId = chainIdFromNetworkId(net.module, net.id)]
  /\ ResolverUnchanged

ToLegacyNetworkId ==
  /\ net.legacy = NOT_CALLED
  /\ net' = [net EXCEPT !.legacy = toLegacyNetworkId(net.module, net.id)]
  /\ ResolverUnchanged

ResolveNetwork ==
  /\ net.module = "app"
  /\ net.resolved = NOT_CALLED
  /\ net' = [net EXCEPT !.resolved = resolveNetwork(net.id)]
  /\ ResolverUnchanged

NextResolver ==
  \/ Normalize
  \/ NormalizeAgain
  \/ ChainIdFromNetworkId
  \/ ToLegacyNetworkId
  \/ ResolveNetwork

SpecResolver == InitResolver /\ [][NextResolver]_vars

(***************************************************************************)
(* A packed signature on its way to the chain.  The facilitator's POST     *)
(* /settle receives it as permit.sig; the metering service's settlement    *)
(* adapter receives it from POST /settlement/complete and splits it before *)
(* it calls the facilitator.                                               *)
(***************************************************************************)
SignatureLengths ==
  {0, SigLength - 2, SigLength - 1, SigLength, SigLength + 1, SigLength + 2}

A_REQUIREMENTS == "Missing payment requirements on authorization payload"
A_SIG_LENGTH == "Invalid signature length: expected 132 hex chars"
A_FACILITATOR == "Facilitator returned an error status"
A_SETTLEMENT == "Settlement failed without error message"

PackedRequests ==
  {[FacOk(k, "n1") EXCEPT !.sigLen = n, !.sig = sg] :
     k \in ApiKeys, n \in SignatureLengths, sg \in {"good", "otherKey"}}

InitSignature ==
  /\ clockMs = StartMs
  /\ enableSettlement = FALSE
  /\ req = EmptyBag
  /\ InitChain
  /\ vreq = [hdr |-> "none", payload |-> NoPayload]
  /\ vresp = PENDING
  /\ facVariant = "server"
  /\ merchantApiKey \in {"", "k1"}
  /\ fac = EmptyBag
  /\ allowance = 0
  /\ pulled = [k \in AuthKeys |-> 0]
  /\ MeterIdle
  /\ net = NoRun
  /\ rqm = NoRun
  /\ \E q \in PackedRequests, hasRequirements \in BOOLEAN :
       adp = [pc |-> "called", q |-> q, hasRequirements |-> hasRequirements,
              facilitator |-> NOT_CALLED, fetched |-> FALSE, result |-> NoResult]

SignatureUnchanged ==
  UNCHANGED <<clockMs, enableSettlement, req, used, transfers, balance, vreq,
              vresp, facVars, meterVars, net, rqm>>

\* POST /settle of the facilitator up to writeContract
FacilitatorSettle ==
  /\ adp.facilitator = NOT_CALLED
  /\ adp' = [adp EXCEPT !.facilitator = settleServer(adp.q)]
  /\ SignatureUnchanged

\* settlePaymentWithAuth up to the fetch of the facilitator's /settle
AdapterSplit ==
  /\ adp.pc = "called"
  /\ adp' =
       IF ~adp.hasRequirements
       THEN [adp EXCEPT !.pc = "returned", !.result = Failure(A_REQUIREMENTS)]
       ELSE IF adp.q.sigLen # SigLength
       THEN [adp EXCEPT !.pc = "returned", !.result = Failure(A_SIG_LENGTH)]
       ELSE [adp EXCEPT !.pc = "fetch"]
  /\ SignatureUnchanged

\* the facilitator's answer: an error status, success:false, or success with
\* a transaction hash
AdapterFetch ==
  /\ adp.pc = "fetch"
  /\ \E answer \in {"notOk", "failed", "success"} :
       adp' = CASE answer = "notOk" ->
                     [adp EXCEPT !.pc = "returned", !.fetched = TRUE,
                                 !.result = Failure(A_FACILITATOR)]
                [] answer = "failed" ->
                     [adp EXCEPT !.pc = "returned", !.fetched = TRUE,
                                 !.result = Failure(A_SETTLEMENT)]
                [] answer = "success" ->
                     [adp EXCEPT !.pc = "receipt", !.fetched = TRUE]
  /\ SignatureUnchanged

\* waitForTransactionReceipt returned the receipt or threw
AdapterReceipt ==
  /\ adp.pc = "receipt"
  /\ \E arrived \in BOOLEAN :
       adp' = [adp EXCEPT !.pc = "returned",
                          !.result = IF arrived THEN Success
                                     ELSE Failure(T_SETTLEMENT)]
  /\ SignatureUnchanged

NextSignature ==
  \/ FacilitatorSettle
  \/ AdapterSplit
  \/ AdapterFetch
  \/ AdapterReceipt

SpecSignature == InitSignature /\ [][NextSignature]_vars

(***************************************************************************)
(* Requirements Generator and field extraction.  A value that arrives in a *)
(* JSON body is a number, one that arrives in the query string is a string;*)
(* UNDEFINED is a field that was not given.                                *)
(***************************************************************************)
UNDEFINED == "undefined"
BodyVersions == {UNDEFINED, "num:1", "num:2"}
QueryVersions == {UNDEFINED, "str:1", "str:2"}

\* Number(v) as a JSON number; Number(undefined) is NaN and stays undefined
NumberOf1(v) ==
  CASE v \in {"num:1", "str:1"} -> "num:1"
    [] v \in {"num:2", "str:2"} -> "num:2"
    [] OTHER -> UNDEFINED

\* a ?? b ?? c ...: the first value of the sequence that is not undefined
RECURSIVE Coalesce(_)
Coalesce(vs) ==
  IF vs = <<>> THEN UNDEFINED
  ELSE IF Head(vs) # UNDEFINED THEN Head(vs)
  ELSE Coalesce(Tail(vs))

DEFAULT_AMOUNT == "1000000"

RequirementsRequests ==
  [ method : {"GET", "POST"},
    x402Version : BodyVersions, version : {UNDEFINED, "num:1"},
    extraVersion : BodyVersions,
    queryX402Version : QueryVersions, queryVersion : {UNDEFINED, "str:1"},
    amount : {UNDEFINED, PAYMENT_AMOUNT} ]

\* a GET carries no body
WellFormedRequest(q) ==
  q.method = "GET" =>
    /\ q.x402Version = UNDEFINED /\ q.version = UNDEFINED
    /\ q.extraVersion = UNDEFINED /\ q.amount = UNDEFINED

Accepts(network, amount, payTo) ==
  [network |-> network, asset |-> USDC, maxAmountRequired |-> amount,
   payTo |-> payTo]
Flat(network, amount, recipient) ==
  [network |-> network, token |-> USDC, amount |-> amount,
   recipient |-> recipient]

\* facilitator/requirements.ts
generateRequirements(request, configNetwork) ==
  LET requestedVersion ==
        Coalesce(<<request.x402Version, request.version, request.extraVersion>>)
      version == IF requestedVersion = "num:1" THEN 1 ELSE 2
      network == IF version = 1 THEN toLegacyNetworkId("app", configNetwork)
                 ELSE configNetwork
      amount == IF request.amount = UNDEFINED THEN DEFAULT_AMOUNT ELSE request.amount
  IN [x402Version |-> version, top |-> <<>>,
      accepts |-> <<Accepts(network, amount, FACILITATOR_ADDRESS)>>]

NoBody ==
  [x402Version |-> UNDEFINED, version |-> UNDEFINED, extraVersion |-> UNDEFINED,
   amount |-> UNDEFINED]

\* services/facilitator/server.ts: GET /requirements reads query.version only,
\* POST /requirements hands the body to the generator
requirementsServer(q, configNetwork) ==
  IF q.method = "GET"
  THEN generateRequirements(
         [NoBody EXCEPT !.x402Version = NumberOf1(q.queryVersion)], configNetwork)
  ELSE generateRequirements(
         [x402Version |-> q.x402Version, version |-> q.version,
          extraVersion |-> q.extraVersion, amount |-> q.amount], configNetwork)

\* the legacy facilitator
getRequestedVersion(q) ==
  LET fromQuery == Coalesce(<<q.queryVersion, q.queryX402Version>>)
      version == NumberOf1(Coalesce(<<q.x402Version, q.version, q.extraVersion,
                                      fromQuery>>))
  IN IF version = "num:1" THEN 1 ELSE 2

getVersionedRequirements(version) ==
  IF version = 1
  THEN [x402Version |-> 1, accepts |-> <<>>,
        top |-> <<Flat(toLegacyNetworkId("app", CAIP2_ARBITRUM_SEPOLIA),
                       PAYMENT_AMOUNT, MERCHANT)>>]
  ELSE [x402Version |-> 2, top |-> <<>>,
        accepts |-> <<Accepts(CAIP2_ARBITRUM_SEPOLIA, PAYMENT_AMOUNT, MERCHANT)>>]

requirementsLegacy(q) == getVersionedRequirements(getRequestedVersion(q))

\* the requirements the deployed generator emits when asked for `version`
\* with the rest of the request unchanged
GeneratedAs(generator, q, configNetwork, version) ==
  IF generator = "server"
  THEN generateRequirements(
         [x402Version |-> version, version |-> UNDEFINED,
          extraVersion |-> UNDEFINED, amount |-> q.amount], configNetwork)
  ELSE getVersionedRequirements(IF version = "num:1" THEN 1 ELSE 2)

NoFields ==
  [network |-> UNDEFINED, token |-> UNDEFINED, amount |-> UNDEFINED,
   recipient |-> UNDEFINED]

FromAccept(accept) ==
  [network |-> accept.network, token |-> accept.asset,
   amount |-> accept.maxAmountRequired, recipient |-> accept.payTo]

\* getRequirementFields of the legacy facilitator and of the settlement
\* adapter: accepts[0] for version 2, the top-level fields otherwise
getRequirementFields(requirements) ==
  IF requirements.x402Version = 2 /\ requirements.accepts # <<>>
  THEN FromAccept(requirements.accepts[1])
  ELSE IF requirements.top # <<>> THEN requirements.top[1] ELSE NoFields

\* the extracted fields with the network id normalized, as the callers do
\* next; normalizeNetworkId(undefined) is ''
NormalizedFields(module, requirements) ==
  LET fields == getRequirementFields(requirements)
  IN [fields EXCEPT !.network =
        IF @ = UNDEFINED THEN "" ELSE normalizeNetworkIdOf(module, @)]

NOT_EXTRACTED == [network |-> NOT_CALLED, token |-> NOT_CALLED,
                  amount |-> NOT_CALLED, recipient |-> NOT_CALLED]
NO_REPLY == [x402Version |-> 0, top |-> <<>>, accepts |-> <<>>]

InitRequirements ==
  /\ ServicesIdle
  /\ net = NoRun
  /\ adp = NoRun
  /\ \E generator \in {"server", "legacy"}, q \in RequirementsRequests,
        configNetwork \in {CAIP2_ARBITRUM_ONE, CAIP2_ARBITRUM_SEPOLIA},
        extractor \in {"app", "utils"} :
       /\ WellFormedRequest(q)
       /\ rqm = [pc |-> "run", generator |-> generator, q |-> q,
                 configNetwork |-> configNetwork, extractor |-> extractor,
                 reply |-> NO_REPLY, status |-> 0, adapted |-> NOT_CALLED,
                 fieldsV1 |-> NOT_EXTRACTED, fieldsV2 |-> NOT_EXTRACTED]

RequirementsUnchanged ==
  UNCHANGED <<clockMs, enableSettlement, req, used, transfers, balance, vreq,
              vresp, facVars, meterVars, net, adp>>

\* the status the endpoint replies with: res.status(402).json in server.ts,
\* res.json in the legacy facilitator; both set the PAYMENT-RESPONSE header
requirementsStatus(generator) == IF generator = "server" THEN 402 ELSE 200

\* GET or POST /requirements
Requirements ==
  /\ rqm.reply = NO_REPLY
  /\ rqm' = [rqm EXCEPT !.reply =
               IF rqm.generator = "server"
               THEN requirementsServer(rqm.q, rqm.configNetwork)
               ELSE requirementsLegacy(rqm.q),
                        !.status = requirementsStatus(rqm.generator)]
  /\ RequirementsUnchanged

\* what SettlementAdapter.getRequirements posts: an amount, a memo and
\* extra.merchantAddress, no version
AdapterRequest(q) ==
  /\ q.method = "POST" /\ q.amount # UNDEFINED
  /\ q.x402Version = UNDEFINED /\ q.version = UNDEFINED
  /\ q.extraVersion = UNDEFINED
  /\ q.queryX402Version = UNDEFINED /\ q.queryVersion = UNDEFINED

\* fetch's response.ok
ResponseOk(status) == status >= 200 /\ status <= 299

A_PARSED == "requirements parsed from the PAYMENT-RESPONSE header"
A_FAILED == "Failed to get requirements"

\* SettlementAdapter.getRequirements, on the facilitator's reply
GetRequirements ==
  /\ rqm.reply # NO_REPLY
  /\ AdapterRequest(rqm.q)
  /\ rqm.adapted = NOT_CALLED
  /\ rqm' = [rqm EXCEPT !.adapted =
               IF ~ResponseOk(rqm.status) THEN A_FAILED ELSE A_PARSED]
  /\ RequirementsUnchanged

\* the fields extracted from what the generator emits as version 1
ExtractV1 ==
  /\ rqm.fieldsV1 = NOT_EXTRACTED
  /\ rqm' = [rqm EXCEPT !.fieldsV1 =
               NormalizedFields(rqm.extractor,
                 GeneratedAs(rqm.generator, rqm.q, rqm.configNetwork, "num:1"))]
  /\ RequirementsUnchanged

\* the fields extracted from what it emits as version 2
ExtractV2 ==
  /\ rqm.fieldsV2 = NOT_EXTRACTED
  /\ rqm' = [rqm EXCEPT !.fieldsV2 =
               NormalizedFields(rqm.extractor,
                 GeneratedAs(rqm.generator, rqm.q, rqm.configNetwork, "num:2"))]
  /\ RequirementsUnchanged

NextRequirements ==
  \/ Requirements
  \/ ExtractV1
  \/ ExtractV2
  \/ GetRequirements

SpecRequirements == InitRequirements /\ [][NextRequirements]_vars

(***************************************************************************)
(* Mandate activation: POST /mandate/submit and                            *)
(* MandateManager.submitSignedMandate.  The client sends back the unsigned *)
(* mandate it was given by POST /mandate/create, or any other, with a      *)
(* signature.  A signature is the address that signed and whether it was   *)
(* made over the message of the mandate submitted.                         *)
(***************************************************************************)
MaxSubmit == 2

M_SIGNATURE_FORMAT == "Invalid signature format"
M_SCHEMA == "ZodError"
M_SIGNATURE == "Invalid mandate signature"

\* what POST /mandate/create hands out
IssuedMandates ==
  { [createUnsignedMandate(PAYER, cap, threshold, StartSeconds)
       EXCEPT !.mandateId = id] :
      cap \in {250}, threshold \in BatchThresholds, id \in MandateIds }

\* what clients submit: an issued mandate, or one with a term altered
SubmittedMandates ==
  IssuedMandates
    \cup { [u EXCEPT !.pricePerMessageMicroUsdc = 0] : u \in IssuedMandates }
    \cup { [u EXCEPT !.batchThreshold = 1000] : u \in IssuedMandates }
    \cup { [u EXCEPT !.expiresAt = @ + MandateTtl] : u \in IssuedMandates }
    \cup { [u EXCEPT !.merchantAddress = toLowerCase(MALLORY)] : u \in IssuedMandates }

MandateSignatures ==
  [ startsWith0x : BOOLEAN, signer : {PAYER, STRANGER}, overSubmitted : BOOLEAN ]

SubmitRequests ==
  [ unsignedMandate : SubmittedMandates, wellFormed : BOOLEAN,
    signature : MandateSignatures ]

\* a verification that accepts every signature
verifyMandateSignatureAlways(mandate, signature) == TRUE

\* verifyMandateSignature: the address recovered from the digest of the
\* mandate's message is the mandate's userAddress
verifyMandateSignature(mandate, signature) ==
  /\ signature.overSubmitted
  /\ toLowerCase(signature.signer) = toLowerCase(mandate.userAddress)

Indexed(index, userAddress, mandateId) ==
  LET user == toLowerCase(userAddress)
      userMandateIds == IF user \in DOMAIN index THEN index[user] ELSE <<>>
  IN [u \in DOMAIN index \cup {user} |->
        IF u = user THEN Append(userMandateIds, mandateId) ELSE index[u]]

SubmitReply(q, status, error) ==
  [n |-> sub.n + 1, q |-> q, status |-> status, error |-> error]

\* POST /mandate/submit with submitSignedMandate
MandateSubmit ==
  /\ sub.n < MaxSubmit
  /\ \E q \in SubmitRequests :
       LET mandate == q.unsignedMandate IN
       IF ~q.signature.startsWith0x
       THEN /\ sub' = SubmitReply(q, 400, M_SIGNATURE_FORMAT)
            /\ UNCHANGED <<mandates, userMandates>>
       ELSE IF ~q.wellFormed
       THEN /\ sub' = SubmitReply(q, 400, M_SCHEMA)
            /\ UNCHANGED <<mandates, userMandates>>
       ELSE IF ~verifyMandateSignature(mandate, q.signature)
       THEN /\ sub' = SubmitReply(q, 400, M_SIGNATURE)
            /\ UNCHANGED <<mandates, userMandates>>
       ELSE /\ mandates' = [id \in DOMAIN mandates \cup {mandate.mandateId} |->
                              IF id = mandate.mandateId THEN mandate
                              ELSE mandates[id]]
            /\ userMandates' = Indexed(userMandates, mandate.userAddress,
                                       mandate.mandateId)
            /\ sub' = SubmitReply(q, 200, NULL)
  /\ UNCHANGED <<events, batches, inf, stl, receipts>>
  /\ UNCHANGED <<pureVars, clockMs, enableSettlement, req, used, transfers, balance, vreq,
                 vresp, facVars>>

NoSubmission == [n |-> 0, status |-> 0, error |-> NULL]

InitMandate ==
  /\ FacIdle
  /\ PureIdle
  /\ clockMs = StartMs
  /\ enableSettlement = FALSE
  /\ req = EmptyBag
  /\ InitChain
  /\ vreq = [hdr |-> "none", payload |-> NoPayload]
  /\ vresp = PENDING
  /\ mandates = <<>>
  /\ events = <<>>
  /\ batches = <<>>
  /\ inf = EmptyBag
  /\ stl = EmptyBag
  /\ receipts = <<>>
  /\ userMandates = <<>>
  /\ sub = NoSubmission

NextMandate == MandateSubmit

SpecMandate == InitMandate /\ [][NextMandate]_vars

(***************************************************************************)
(* Properties of the Verifier (SpecVerify).                                *)
(***************************************************************************)
Answered == vresp # PENDING
Presented == vreq.hdr = "payment"

\* spellings of the network the quote resource is configured for
SepoliaSpellings ==
  {"eip155:421614", "EIP155:421614", "arbitrum-sepolia", "Arbitrum-Sepolia"}

PassesSchemeNetwork ==
  /\ Presented
  /\ vreq.payload.scheme = "exact"
  /\ vreq.payload.network \in SepoliaSpellings

ReachesAmountCheck ==
  PassesSchemeNetwork /\ vreq.payload.value \in {"0", "999", "1000", "1001", "0x3e8"}

AmountOf(v) == IF v = "0x3e8" THEN 1000 ELSE
               IF v = "0" THEN 0 ELSE IF v = "999" THEN 999 ELSE
               IF v = "1000" THEN 1000 ELSE 1001

PassesAmount == ReachesAmountCheck /\ AmountOf(vreq.payload.value) >= 1000

PassesRecipient ==
  PassesAmount /\ vreq.payload.to \in {"0xBb", "0xbb"}

SignedForAsset == vreq.payload.sig # "otherToken"

ReachesTimeCheck == PassesRecipient /\ vreq.payload.sig = "good"

\* C6 (as claimed): the reason is that of the earliest failing check in the
\* order scheme/network, amount, recipient, token, signature, time window,
\* each check with a reason of its own.
E_TOKEN == "Invalid token"
ClaimedReason ==
  IF ~PassesSchemeNetwork THEN E_SCHEME_NETWORK
  ELSE IF ~PassesAmount THEN E_AMOUNT
  ELSE IF ~PassesRecipient THEN E_RECIPIENT
  ELSE IF ~SignedForAsset THEN E_TOKEN
  ELSE IF vreq.payload.sig # "good" THEN E_SIGNATURE
  ELSE IF ~(vreq.payload.validAfter <= Now /\ Now <= vreq.payload.validBefore)
       THEN E_TIME
  ELSE VERIFIED

C6_ClaimedCheckOrder ==
  (Answered /\ Presented /\ vresp # E_SYNTAX) => vresp = ClaimedReason

\* C7: an authorization that reaches the amount check passes it iff its value
\* is at least maxAmountRequired (1000); every smaller value is answered
\* "Insufficient payment amount"; an accepted authorization has value >= 1000.
C7_AmountMonotonicity ==
  /\ (Answered /\ ReachesAmountCheck) =>
        (vresp = E_AMOUNT <=> AmountOf(vreq.payload.value) < 1000)
  /\ (Answered /\ Presented /\ vresp = VERIFIED) =>
        AmountOf(vreq.payload.value) >= 1000

C7_Witness ==
  Answered /\ ReachesAmountCheck /\ vreq.payload.value = "999" /\ vresp = E_AMOUNT

\* C8: an authorization that passed every earlier check is accepted exactly
\* when validAfter <= now <= validBefore, both bounds inclusive, and is
\* otherwise answered "expired or not yet valid" - in particular one second
\* before validAfter and one second after validBefore.
C8_TimeWindowBoundary ==
  (Answered /\ ReachesTimeCheck) =>
     IF vreq.payload.validAfter <= Now /\ Now <= vreq.payload.validBefore
     THEN vresp = VERIFIED
     ELSE vresp = E_TIME

C8_Witness ==
  /\ Answered /\ ReachesTimeCheck
  /\ Now = vreq.payload.validBefore + 1
  /\ vreq.payload.validAfter <= vreq.payload.validBefore
  /\ vresp = E_TIME

\* C9: a presented authorization is rejected with "Unsupported payment scheme
\* or network" exactly when its scheme is not "exact" or its network is not a
\* spelling of the configured network; so an accepted one has both.
C9_SchemeAndNetwork ==
  /\ (Answered /\ Presented) =>
        (vresp = E_SCHEME_NETWORK <=> ~PassesSchemeNetwork)
  /\ (Answered /\ vresp = VERIFIED) => PassesSchemeNetwork

C9_Witness ==
  /\ Answered /\ Presented
  /\ vreq.payload.scheme = "exact"
  /\ vreq.payload.network = CAIP2_ARBITRUM_ONE
  /\ vresp = E_SCHEME_NETWORK

\* C10 (as claimed): an authorization made out for a token other than the
\* configured asset is rejected with the reason "invalid token".
C10_InvalidTokenReason ==
  (Answered /\ PassesRecipient /\ ~SignedForAsset) => vresp = E_TOKEN

(***************************************************************************)
(* Properties of the Resource Gate and the Settlement Executor (Spec).     *)
(***************************************************************************)
Finished == {r \in InFlight : r.pc = "done"}
Settled == {r \in Finished : r.result # NoResult}
NumberOf(S) == BagCardinality([r \in S |-> CopiesIn(r, req)])
SucceededWith(k) == {r \in Settled : AuthKey(r.payload) = k /\ r.result.success}

\* C1: with settlement enabled, a POST /quote whose settlement attempt
\* returned success:false never ends with 200 and the quote: it ends with 402
\* and an error that carries the settlement error; so a 200 is only ever
\* sent after a settlement that returned success:true.
C1_NoQuoteAfterFailedSettlement ==
  enableSettlement =>
    \A r \in Finished :
      r.via = "quote" =>
        /\ (r.result # NoResult /\ ~r.result.success) =>
              /\ r.status # 200
              /\ r.status = 402
              /\ r.error = E_SETTLEMENT
              /\ r.detail = r.result.error
              /\ r.detail # ""
        /\ r.status = 200 => r.result = Success

C1_Witness ==
  /\ enableSettlement
  /\ \E r \in Finished :
       /\ r.via = "quote"
       /\ r.result = Reverted
       /\ r.status = 402 /\ r.detail = S_REVERTED

C3_AtMostOneSuccess ==
  /\ \A k \in AuthKeys :
       /\ NumberOf(SucceededWith(k)) <= 1
       /\ transfers[k] <= 1
       /\ NumberOf({r \in InFlight : AuthKey(r.payload) = k /\ r.tx = "success"})
            = transfers[k]
  /\ \A r \in Settled : r.result.success => r.tx = "success"

C3_Witness ==
  \E a, b \in Finished :
    /\ AuthKey(a.payload) = AuthKey(b.payload)
    /\ ~a.late /\ ~b.late
    /\ a.tx = "success" /\ b.tx = "reverted"
    /\ a.result = Success
    /\ b.result = Reverted
    /\ transfers[AuthKey(a.payload)] = 1

(***************************************************************************)
(* Properties of the facilitator's POST /settle (SpecFac).                 *)
(***************************************************************************)
\* C4 (as claimed): for one (owner, nonce) POST /settle performs at most one
\* successful transfer; a further request with that nonce is rejected.
C4_FacilitatorNonceSingleUse ==
  \A k \in AuthKeys : pulled[k] <= 1

\* C5 (as claimed): POST /settle submits a transaction only for a request
\* whose X-API-Key equals the configured, non-empty merchant key.
C5_SettleRequiresApiKey ==
  \A r \in FacInFlight :
    r.tx # "none" => (merchantApiKey # "" /\ r.q.apiKey = merchantApiKey)

\* C11 (as claimed): POST /verify answers valid:true only for a request
\* whose signature recovers to the claimed payer.
C11_VerifyChecksSignature ==
  vresp = VALID => vreq.sig = "good"

\* C12 (as claimed): POST /settle submits a transfer only for an
\* authorization whose deadline has not passed (the clock stands still while
\* the facilitator's requests are handled).
C12_SettleWithinWindow ==
  \A r \in FacInFlight : r.tx # "none" => Now <= r.q.deadline

\* the price ceiling of a settlement, in units of 0.01 gwei (100 gwei)
Ceiling == 100 * UnitsPerGwei
Estimated == {r \in InFlight : r.gas # NoGas}

\* C13 (as claimed): a settlement whose estimated fee (buffered gas limit
\* times maxFeePerGas) exceeds the ceiling is refused with "gas price too
\* high" and never broadcast.
C13_FeeOverCeilingRefused ==
  \A r \in Estimated :
    r.gas.estimatedCost > Ceiling =>
      r.tx = "none" /\ r.pc = "done" /\ r.result = Failure(S_GAS_HIGH)

\* C13 (amended): a settlement whose maxFeePerGas (twice the base fee plus
\* the priority fee) exceeds the configured maximum gas price is refused:
\* success:false with "Gas price too high", nothing broadcast; and that
\* result is given for no other reason. The estimated fee plays no part.
C13_PriceOverCeilingRefused ==
  /\ \A r \in Estimated :
       /\ r.gas.maxFeePerGas > Ceiling =>
            /\ r.pc = "done" /\ r.tx = "none"
            /\ r.result = Failure(S_GAS_HIGH)
            /\ r.via = "quote" => (r.status = 402 /\ r.detail = S_GAS_HIGH)
       /\ r.gas.maxFeePerGas <= Ceiling => r.result # Failure(S_GAS_HIGH)
  /\ \A r \in InFlight :
       /\ r.result = Failure(S_GAS_HIGH) => r \in Estimated
       /\ r.tx # "none" => (r \in Estimated /\ r.gas.maxFeePerGas <= Ceiling)

C13_Witness ==
  \E r \in Finished :
    /\ r.gas.maxFeePerGas = Ceiling + 1
    /\ r.result = Failure(S_GAS_HIGH)
    /\ r.tx = "none"

\* C14 (as claimed): a settlement call during which an RPC call failed - the
\* authorization-state read included - ends as a failed SettlementResult.
ReadFailed == {r \in InFlight : r.pc # "readAuth" /\ ~r.readOk}
C14_ReadFailureSurfaced ==
  \A r \in ReadFailed : r.pc = "done" => ~r.result.success

\* C15 (as claimed, for the facilitator): POST /settle answers success:true
\* only for a transaction whose receipt has status success.
C15_FacilitatorMapsReceipt ==
  \A r \in FacInFlight : r.success => r.tx = "success"

\* presented authorizations the Resource Gate rejected with 402
Rejected ==
  {r \in Finished : r.via = "quote" /\ r.hdr = "payment" /\ r.status = 402}

\* C16 (as claimed): no two rejections are answered with the same
\* requirements: each 402 carries requirements of its own.
C16_FreshRequirementsPerRejection ==
  \A a \in Rejected :
    /\ CopiesIn(a, req) = 1
    /\ \A b \in Rejected \ {a} : a.paymentResponse # b.paymentResponse

\* C17: a POST /quote without a payment header is answered 402 with
\* error "Payment required" and a PAYMENT-RESPONSE header, mirrored in
\* X-PAYMENT-RESPONSE, whose accepts[0].maxAmountRequired is "1000"; it is
\* never verified or settled (no chain read, estimate or transaction) and
\* gets no quote.
C17_NoHeaderPaymentRequired ==
  \A r \in InFlight :
    (r.via = "quote" /\ r.hdr = "none") =>
      /\ r.pc = "done"
      /\ r.status = 402
      /\ r.error = "Payment required"
      /\ Len(r.paymentResponse) = 1
      /\ r.paymentResponse[1].accepts[1].maxAmountRequired = "1000"
      /\ r.xPaymentResponse = r.paymentResponse
      /\ r.result = NoResult /\ r.tx = "none" /\ r.gas = NoGas /\ ~r.readOk

C17_Witness ==
  \E r \in Finished :
    r.via = "quote" /\ r.hdr = "none" /\ r.status = 402 /\ r.error = E_REQUIRED

Presenting(p) == \E r \in InFlight : r.payload = p

\* the quote was released for p after a settlement that succeeded
ReleasedFor(p) ==
  \E r \in InFlight :
    /\ r.payload = p
    /\ r.pc = "done"
    /\ r.result.success
    /\ r.result.transactionHash # "null"
    /\ r.tx = "success"
    /\ r.status = 200
    /\ r.xPaymentResponse = <<[status |-> "completed", settled |-> TRUE]>>

BatchStatuses == {"pending", "settling", "settled", "failed"}
ForwardSteps ==
  {<<"pending", "settling">>, <<"settling", "settled">>, <<"settling", "failed">>}

\* a POST /settlement/complete for the batch is between its start and its outcome
Attempting(batchId) == \E s \in Settling : s.batchId = batchId

BatchStep ==
  /\ \A b \in DOMAIN batches :
       /\ b \in DOMAIN batches'
       /\ batches'[b].status # batches[b].status =>
            /\ <<batches[b].status, batches'[b].status>> \in ForwardSteps
            /\ IF batches[b].status = "pending"
               THEN ~Attempting(b) /\ Attempting(b)'
               ELSE Attempting(b) /\ ~Attempting(b)'
  /\ \A b \in (DOMAIN batches') \ (DOMAIN batches) : batches'[b].status = "pending"

\* C19: a batch's status is always one of pending, settling, settled, failed;
\* a batch is created pending; its status only ever changes pending -> settling
\* at the start of a POST /settlement/complete for it, and settling -> settled
\* or settling -> failed at the outcome of that request; settled and failed are
\* never left.
C19_BatchStatusForward ==
  /\ [](\A b \in DOMAIN batches : batches[b].status \in BatchStatuses)
  /\ [][BatchStep]_vars

\* one batch was settled, another failed, and a later attempt on a finished
\* batch was turned away
C19_Witness ==
  /\ \E b \in DOMAIN batches : batches[b].status = "settled"
  /\ \E b \in DOMAIN batches : batches[b].status = "failed"
  /\ \E s \in BagToSet(stl) :
       s.status = 400 /\ s.error \in {BatchAlready("settled"), BatchAlready("failed")}

\* C20: the total price of the usage events recorded for a user never exceeds
\* the dailyCapMicroUsdc of that user's mandate, whatever the interleaving of
\* the user's POST /inference requests.
C20_DailyCapEnforced ==
  \A id \in DOMAIN mandates :
    getDailyUsage(mandates[id].userAddress) <= mandates[id].dailyCapMicroUsdc

(***************************************************************************)
(* Properties of the Network Identity Resolver (SpecResolver).             *)
(***************************************************************************)
ArbitrumAliases == {"arbitrum", "eip155:42161", "ARBITRUM"}

\* C24: normalize maps the aliases arbitrum, eip155:42161 and ARBITRUM of one
\* network to the same canonical value, and for every input x
\* normalize(normalize(x)) returns what normalize(x) returned.
C24_NormalizeCanonicalIdempotent ==
  /\ net.id \in ArbitrumAliases /\ net.normalized # NOT_CALLED
       => net.normalized = CAIP2_ARBITRUM_ONE
  /\ net.twice # NOT_CALLED
       => ~Threw(net.twice) /\ net.twice = net.normalized

\* eip155:<N> in either letter case, with the N it names
WellFormedChain ==
  [id \in {"eip155:42161", "EIP155:42161", "eip155:421614", "EIP155:421614",
           "eip155:10", "EIP155:10"} |->
     NumberAfterColon(toLowerCase(id))]

\* C25: for every well-formed eip155:<N>, in any letter case and with or
\* without an alias entry, chainIdFromNetworkId returns N.
C25_ChainIdOfWellFormedId ==
  net.id \in DOMAIN WellFormedChain /\ net.chainId # ChainNotCalled
    => net.chainId = ChainId(WellFormedChain[net.id])

\* C26: no operation of the resolver throws; for an empty, unknown or
\* malformed id the chain id is null.
C26_ResolverNeverThrows ==
  /\ ~Threw(net.normalized)
  /\ ~Threw(net.legacy)
  /\ ~Threw(net.resolved)
  /\ net.chainId.kind # "throw"
  /\ net.id \in {"", "solana", "eip155:abc", "eip155:"}
       /\ net.chainId # ChainNotCalled => net.chainId = ChainNull

(***************************************************************************)
(* Further properties of the Resource Gate (Spec).                         *)
(***************************************************************************)
\* C28: a POST /quote whose settlement returned success:true (the payer was
\* charged on chain) ends with 200 and the quote; none is charged and then
\* refused.
C28_ChargedRequestGetsQuote ==
  \A r \in Finished :
    (r.via = "quote" /\ r.result # NoResult /\ r.result.success) => r.status = 200

\* the POST /quote requests that presented the authorization k and were
\* answered 200 with the quote
ReleasedBy(k) ==
  {r \in Finished :
     r.via = "quote" /\ r.hdr = "payment" /\ AuthKey(r.payload) = k /\ r.status = 200}

\* C29: the requests presenting one authorization (same from and nonce) are
\* answered with the quote at most once, with settlement enabled and in
\* verification-only mode.
C29_AuthorizationReleasesOnce ==
  \A k \in AuthKeys : NumberOf(ReleasedBy(k)) <= 1

(***************************************************************************)
(* Concurrent settlement attempts on one batch (SpecMeter).                *)
(***************************************************************************)
\* the POST /settlement/complete requests for the batch that passed the status
\* check: they are waiting for the facilitator or were answered with its result
PassedCheck(batchId) ==
  {s \in BagToSet(stl) :
     s.batchId = batchId /\ (s.pc = "settling" \/ s.status \in {200, 500})}

\* those that named the batch with all their fields after it was created
TurnedAway(batchId) ==
  {s \in BagToSet(stl) :
     /\ s.batchId = batchId
     /\ s \notin PassedCheck(batchId)
     /\ s.error \notin {T_MISSING, T_NO_BATCH}}

\* C30: for every batch and every interleaving of the POST /settlement/complete
\* requests that name it, at most one passes the status check and calls the
\* facilitator; each of the others is answered 400 "Batch is already ...".
C30_OneSettlementAttemptPerBatch ==
  \A b \in DOMAIN batches :
    /\ BagCardinality([s \in PassedCheck(b) |-> CopiesIn(s, stl)]) <= 1
    /\ \A s \in TurnedAway(b) :
         /\ s.pc = "done" /\ s.status = 400
         /\ s.error \in {BatchAlready("settling"), BatchAlready("settled"),
                         BatchAlready("failed")}

\* a second request arrived while the first was waiting for the facilitator
C30_Witness ==
  \E b \in DOMAIN batches :
    /\ \E s \in PassedCheck(b) : s.pc = "settling"
    /\ \E s \in TurnedAway(b) : s.error = BatchAlready("settling")


(***************************************************************************)
(* Properties of the packed signature's handling (SpecSignature).          *)
(***************************************************************************)
\* C27: a packed signature that is not exactly 132 characters long is turned
\* away before anything is sent to the chain: the facilitator's POST /settle
\* rejects the request before writeContract, with "Invalid signature format"
\* once the API key and the body's format are accepted, and the settlement
\* adapter returns success:false without calling the facilitator, with
\* "Invalid signature length" when the requirements are present; neither error
\* is the one given for a signature that recovers to another address.
C27_WrongLengthSignatureRejected ==
  (adp.pc # "idle" /\ adp.q.sigLen # SigLength) =>
    /\ adp.facilitator # NOT_CALLED =>
         /\ adp.facilitator # ACCEPTED
         /\ adp.facilitator \in {F_UNAUTHORIZED, F_SIGNATURE_FORMAT}
         /\ ApiKeyOk(adp.q.apiKey) => adp.facilitator = F_SIGNATURE_FORMAT
    /\ ~adp.fetched
    /\ adp.pc \in {"called", "returned"}
    /\ adp.pc = "returned" =>
         /\ ~adp.result.success
         /\ adp.hasRequirements => adp.result = Failure(A_SIG_LENGTH)
    /\ E_SIGNATURE \notin {F_SIGNATURE_FORMAT, A_SIG_LENGTH}

C27_Witness ==
  /\ adp.pc = "returned"
  /\ adp.q.sigLen = SigLength - 2
  /\ adp.q.sig = "good"
  /\ adp.facilitator = F_SIGNATURE_FORMAT
  /\ adp.result = Failure(A_SIG_LENGTH)

(***************************************************************************)
(* Properties of the Requirements Generator (SpecRequirements).            *)
(***************************************************************************)
\* the versions the caller gave, wherever it gave them
GivenVersions(q) ==
  {NumberOf1(v) : v \in {q.x402Version, q.version, q.extraVersion,
                         q.queryX402Version, q.queryVersion}} \ {UNDEFINED}

\* C21: an endpoint that emits requirements answers with x402Version 1 when
\* the caller asked for version 1 (in the body, in the query or under extra,
\* and for no other version anywhere), and with x402Version 2 when the caller
\* asked for version 1 nowhere.
C21_VersionNegotiation ==
  rqm.pc = "run" /\ rqm.reply # NO_REPLY =>
    /\ GivenVersions(rqm.q) = {"num:1"} => rqm.reply.x402Version = 1
    /\ "num:1" \notin GivenVersions(rqm.q) => rqm.reply.x402Version = 2

\* C22: requirements emitted as version 1 carry the network in its legacy
\* string form and the fields of accepts[0] at the top level of the response.
C22_VersionOneIsFlatAndLegacy ==
  rqm.pc = "run" /\ rqm.reply.x402Version = 1 =>
    /\ rqm.reply.top # <<>>
    /\ rqm.reply.accepts = <<>>
    /\ rqm.reply.top[1].network
         \in {LEGACY_NETWORK_ARBITRUM, LEGACY_NETWORK_ARBITRUM_SEPOLIA}
    /\ rqm.reply.top[1].network = toLegacyNetworkId("app",
         IF rqm.generator = "server" THEN rqm.configNetwork
         ELSE CAIP2_ARBITRUM_SEPOLIA)

\* C23: the fields extracted from a requirement generated as version 1 and
\* from the same requirement generated as version 2 are the same
\* {network, token, amount, recipient}, the network normalized.
C23_VersionShapesExtractAlike ==
  (rqm.pc = "run" /\ rqm.fieldsV1 # NOT_EXTRACTED /\ rqm.fieldsV2 # NOT_EXTRACTED)
    => rqm.fieldsV1 = rqm.fieldsV2

(***************************************************************************)
(* Settlement, receipts and usage of the metering service (SpecMeter).     *)
(***************************************************************************)
\* the POST /settlement/complete requests that marked their batch settled
SettledRequests == {s \in BagToSet(stl) : s.pc = "done" /\ s.status = 200}

BatchOwner(batchId) == mandates[batches[batchId].mandateId].userAddress

\* C31: a request marks its batch settled only with an authorization that
\* pays for the batch: the authorization's from is the batch's user, its
\* value is at least the batch total, and the request's userAddress is the
\* batch's owner.
C31_SettledBatchWasPaid ==
  \A s \in SettledRequests :
    /\ toLowerCase(s.authorization.from) = toLowerCase(BatchOwner(s.batchId))
    /\ s.authorization.value >= batches[s.batchId].totalMicroUsdc
    /\ toLowerCase(s.userAddress) = toLowerCase(BatchOwner(s.batchId))

ReceiptsOf(batchId) == SelectSeq(receipts, LAMBDA r : r.batchId = batchId)

\* C35: a batch has a receipt only if it is settled, every settled batch has
\* a receipt, and no batch has more than one.
C35_ReceiptsMatchSettledBatches ==
  /\ \A i \in DOMAIN receipts :
       /\ receipts[i].batchId \in DOMAIN batches
       /\ batches[receipts[i].batchId].status = "settled"
  /\ \A b \in DOMAIN batches :
       /\ batches[b].status = "settled" => Len(ReceiptsOf(b)) = 1
       /\ Len(ReceiptsOf(b)) <= 1

\* one batch settled with its receipt, another failed without one
C35_Witness ==
  \E b, c \in DOMAIN batches :
    /\ batches[b].status = "settled" /\ Len(ReceiptsOf(b)) = 1
    /\ batches[c].status = "failed" /\ Len(ReceiptsOf(c)) = 0

\* the requests that arrive in a step
Arriving == {s \in BagToSet(stl') : CopiesIn(s, stl') > CopiesIn(s, stl)}

\* C36: a POST /settlement/complete for a batch that is settling, settled or
\* failed is answered 400 at once, without a call of the facilitator, and
\* leaves the batches and the receipts as they were; a failed batch stays
\* failed.
C36_NonPendingBatchUntouched ==
  [][/\ BagCardinality(stl') > BagCardinality(stl) =>
          \A s \in Arriving :
            (s.batchId \in DOMAIN batches
               /\ batches[s.batchId].status # "pending") =>
              /\ s.pc = "done" /\ s.status = 400
              /\ batches' = batches
              /\ receipts' = receipts
     /\ \A b \in DOMAIN batches :
          batches[b].status = "failed" => batches'[b].status = "failed"]_vars

\* a request for a failed batch was answered 400 and the batch is still
\* failed, without a receipt
C36_Witness ==
  \E s \in BagToSet(stl) :
    /\ s.status = 400 /\ s.error = BatchAlready("failed")
    /\ batches[s.batchId].status = "failed"
    /\ Len(ReceiptsOf(s.batchId)) = 0

\* the mandate checks of POST /inference, on the state the request meets
ChecksPass(q) ==
  /\ q.mandateId \in DOMAIN mandates
  /\ Now < mandates[q.mandateId].expiresAt
  /\ toLowerCase(mandates[q.mandateId].userAddress) = toLowerCase(q.userAddress)
  /\ getDailyUsage(q.userAddress) < mandates[q.mandateId].dailyCapMicroUsdc
  /\ getDailyUsage(q.userAddress) + mandates[q.mandateId].pricePerMessageMicroUsdc
       <= mandates[q.mandateId].dailyCapMicroUsdc

\* C37: a POST /inference reaches the model call only if the mandate exists,
\* has not expired, belongs to the caller and the cap is not exceeded; a usage
\* event is recorded, and a batch created, only by a request whose model call
\* returned, which is answered 200; a request answered with an error records
\* nothing.
C37_UsageOnlyAfterChecksAndModelCall ==
  [][/\ \A r \in BagToSet(inf') :
          (r.pc = "generating" /\ CopiesIn(r, inf') > CopiesIn(r, inf))
            => ChecksPass(r.q)
     /\ (events' # events \/ Len(batches') > Len(batches)) =>
          \E r \in Generating :
            /\ CopiesIn(r, inf') < CopiesIn(r, inf)
            /\ \E d \in BagToSet(inf') :
                 /\ d.q = r.q /\ d.pc = "done" /\ d.status = 200
                 /\ CopiesIn(d, inf') > CopiesIn(d, inf)
            /\ Len(events') = Len(events) + 1
     /\ \A d \in BagToSet(inf') :
          (d.pc = "done" /\ d.status # 200 /\ CopiesIn(d, inf') > CopiesIn(d, inf))
            => events' = events /\ batches' = batches]_vars

\* one request failed in the model call and one recorded its usage
C37_Witness ==
  /\ \E r \in BagToSet(inf) : r.status = 500
  /\ \E r \in BagToSet(inf) : r.status = 200
  /\ Len(events) = 1

\* C38: a POST /inference answered with settlementTriggered and
\* needsSignature carries the completed settlement authorization, never a
\* pending or empty one.
C38_TriggeredReplyCarriesAuthorization ==
  \A r \in BagToSet(inf) :
    (r.pc = "done" /\ r.status = 200 /\ r.batchId # 0)
      => r.settlementAuthorization \notin {NULL, PROMISE}

(***************************************************************************)
(* Properties of mandate activation (SpecMandate).                         *)
(***************************************************************************)
\* C32: every stored mandate carries the server's terms: the price per
\* message, the batch threshold and the merchant address of
\* createUnsignedMandate, and an expiry 24 hours after it was issued.
C32_StoredMandateHasServerTerms ==
  \A id \in DOMAIN mandates :
    /\ mandates[id].pricePerMessageMicroUsdc = PRICE_PER_MESSAGE_MICRO_USDC
    /\ mandates[id].batchThreshold \in BatchThresholds
    /\ mandates[id].merchantAddress = toLowerCase(MERCHANT)
    /\ mandates[id].expiresAt <= Now + MandateTtl

\* the signature of a request was made by its mandate's user over its message
SignedByUser(q) ==
  /\ q.signature.overSubmitted
  /\ toLowerCase(q.signature.signer) = toLowerCase(q.unsignedMandate.userAddress)

\* C33: a submission changes the mandate store or the user index only if the
\* mandate passed the schema and its signature verified against userAddress,
\* and then it does both; a submission whose signature does not verify is
\* answered "Invalid mandate signature" and changes neither.
C33_StoreOnlyVerifiedMandates ==
  [][sub'.n = sub.n + 1 =>
       LET q == sub'.q
           id == q.unsignedMandate.mandateId
           user == toLowerCase(q.unsignedMandate.userAddress)
       IN /\ (mandates' # mandates \/ userMandates' # userMandates) =>
               /\ q.wellFormed /\ SignedByUser(q)
               /\ sub'.status = 200
          /\ sub'.status = 200 =>
               /\ id \in DOMAIN mandates' /\ mandates'[id] = q.unsignedMandate
               /\ user \in DOMAIN userMandates'
               /\ Len(userMandates'[user]) > 0
               /\ userMandates'[user][Len(userMandates'[user])] = id
          /\ (q.signature.startsWith0x /\ q.wellFormed /\ ~SignedByUser(q)) =>
               /\ sub'.status = 400 /\ sub'.error = M_SIGNATURE
               /\ mandates' = mandates /\ userMandates' = userMandates]_vars

\* one submission was stored and the next, signed by another address, was
\* refused
C33_Witness ==
  /\ sub.n = 2 /\ sub.error = M_SIGNATURE
  /\ DOMAIN mandates # {}
  /\ toLowerCase(PAYER) \in DOMAIN userMandates

(***************************************************************************)
(* What the facilitator's POST /settle transfers (SpecFac).                *)
(***************************************************************************)
\* the requests that reached client.writeContract
Submitted == {r \in FacInFlight : r.pc \in {"submit", "wait"} \/ r.tx # "none"}

\* the requirements and the payload the handler validates
Bundle(q) == IF facVariant = "server" THEN sdkRequestToInternal(q) ELSE q

\* C34: POST /settle submits transferFrom only for a request whose payload
\* and requirement networks agree and are the configured network, whose
\* token is the configured USDC address, whose payload.to is the facilitator
\* address, whose requirements.amount equals payload.value and lies in
\* 1..1,000,000,000; the call goes to the configured token and pays the
\* facilitator address.
C34_SettleTransfersOnlyValidated ==
  \A r \in Submitted :
    LET b == Bundle(r.q) IN
    /\ normalizeNetworkId(b.payNetwork) = normalizeNetworkId(b.reqNetwork)
    /\ normalizeNetworkId(b.reqNetwork) = CAIP2_ARBITRUM_SEPOLIA
    /\ toLowerCase(b.token) = toLowerCase(USDC)
    /\ toLowerCase(b.to) = toLowerCase(FACILITATOR_ADDRESS)
    /\ b.amount = b.value
    /\ ~BigIntThrows(b.amount)
    /\ BigInt(b.amount) > 0 /\ BigInt(b.amount) <= MAX_AMOUNT
    /\ r.call # NoCall =>
         /\ r.call.address = USDC
         /\ r.call.to = FACILITATOR_ADDRESS
         /\ r.call.value = BigInt(b.amount)

\* a transferFrom was executed for one request and another, paying someone
\* else, was refused
C34_Witness ==
  /\ \E r \in FacInFlight : r.tx = "success" /\ r.call # NoCall
  /\ \E r \in FacInFlight : r.pc = "done" /\ r.error = F_RECIPIENT

(***************************************************************************)
(* The settlement adapter's requirements (SpecRequirements).               *)
(***************************************************************************)
\* C39: the settlement adapter takes the facilitator's reply to its POST
\* /requirements, which carries the requirements in the PAYMENT-RESPONSE
\* header, for the requirements, whatever the facilitator and with status
\* 402 too, and never for a failure.
C39_AdapterConsumesRequirements ==
  (rqm.pc = "run" /\ rqm.adapted # NOT_CALLED) => rqm.adapted = A_PARSED

=============================================================================
